---- MODULE Spec2Model ----
(***************************************************************************)
(* Model of the code review assistant: the concurrent analysis engine      *)
(* (internal/analyzer: Analyzer.Analyze, Analyzer.analyzeFile), the        *)
(* external security scanner adapter (internal/security: GosecScanner) and *)
(* the feedback-driven ranking engine (internal/ml, internal/cmd).         *)
(*                                                                         *)
(* Strings that the code slices or concatenates (paths) are sequences of   *)
(* one-character strings; all other strings are TLA+ strings.              *)
(***************************************************************************)
EXTENDS Integers, Sequences, FiniteSets, Bags, TLC

(* ------------------------------------------------------------------ *)
(* Bounds of the model                                                 *)
(* ------------------------------------------------------------------ *)

\* Largest number of input files handed to Analyze.
MaxFiles == 3

\* Longest finding list handed to the ranking engine.
MaxIssues == 3

\* Most learning records, over all rules, of a store ranked together with
\* a list of up to MaxIssues findings.
MaxHistory == 3

\* Most learning records of the one rule of a store ranked together with
\* a single finding (ten records reach the rates 0.3 and 0.8 exactly).
MaxRecords == 10

\* Store operations in one behaviour of the feedback store.
MaxOps == 3

\* Records a behaviour of the feedback store appends at most.
MaxStored == 3

(* ------------------------------------------------------------------ *)
(* Generic helpers                                                     *)
(* ------------------------------------------------------------------ *)

Min(S) == CHOOSE x \in S : \A y \in S : x <= y

RECURSIVE Concat(_)
\* Concatenation of a sequence of sequences.
Concat(ss) == IF ss = <<>> THEN <<>> ELSE Head(ss) \o Concat(Tail(ss))

RECURSIVE SeqToBag(_)
\* The multiset of the elements of a sequence.
SeqToBag(s) == IF s = <<>> THEN EmptyBag ELSE SetToBag({Head(s)}) (+) SeqToBag(Tail(s))

\* Sequences over S without repetition, of length at most n.
DistinctSeqs(S, n) ==
  UNION {{s \in [1..k -> S] : \A i, j \in 1..k : i # j => s[i] # s[j]} : k \in 0..n}

\* All orderings of a finite set.
Orderings(S) == {s \in [1..Cardinality(S) -> S] : \A i, j \in 1..Cardinality(S) : i # j => s[i] # s[j]}

(* ------------------------------------------------------------------ *)
(* Rule registry (patterns, anti-patterns, best practices, security)   *)
(* ------------------------------------------------------------------ *)

\* The four rule families in the order NewAnalyzer registers them; each is
\* a prefix-preserving selection of the registry's entries, in registry order.
patterns == <<"empty-function", "too-many-params", "undocumented-exported">>
antiPatterns == <<"panic-usage", "init-misuse">>
bestPractices == <<"error-handling", "function-naming">>
securityRules == <<"CS001", "CS003">>

\* Fields every detector writes into the issue it returns.
RuleMeta ==
  [r \in {"empty-function", "too-many-params", "undocumented-exported", "panic-usage",
          "init-misuse", "error-handling", "function-naming", "CS001", "CS003"} |->
     CASE r = "empty-function"        -> [Category |-> "code-smell",    Severity |-> "low",      Confidence |-> "high"]
       [] r = "too-many-params"       -> [Category |-> "code-smell",    Severity |-> "medium",   Confidence |-> "high"]
       [] r = "undocumented-exported" -> [Category |-> "documentation", Severity |-> "medium",   Confidence |-> "high"]
       [] r = "panic-usage"           -> [Category |-> "anti-pattern",  Severity |-> "high",     Confidence |-> "high"]
       [] r = "init-misuse"           -> [Category |-> "anti-pattern",  Severity |-> "medium",   Confidence |-> "medium"]
       [] r = "error-handling"        -> [Category |-> "best-practice", Severity |-> "high",     Confidence |-> "medium"]
       [] r = "function-naming"       -> [Category |-> "best-practice", Severity |-> "low",      Confidence |-> "high"]
       [] r = "CS001"                 -> [Category |-> "security",      Severity |-> "critical", Confidence |-> "medium"]
       [] r = "CS003"                 -> [Category |-> "security",      Severity |-> "medium",   Confidence |-> "low"]]

\* A detector applied to one syntax node: an issue positioned by the file
\* set (absolute file name, node line) or nothing. A node carries the set
\* of rules whose syntactic condition it meets.
Detector(rule, path, node) ==
  IF rule \in node.fires
  THEN <<[File |-> path, Line |-> node.line, Message |-> rule, Category |-> RuleMeta[rule].Category,
          Severity |-> RuleMeta[rule].Severity, Confidence |-> RuleMeta[rule].Confidence, Rule |-> rule]>>
  ELSE <<>>

(* ------------------------------------------------------------------ *)
(* Input files                                                         *)
(* ------------------------------------------------------------------ *)

\* Syntax trees: node id -> [line, fires, kids]; node 1 is the root.
TreeA ==
  [n \in 1..4 |->
     CASE n = 1 -> [line |-> 1, fires |-> {}, kids |-> <<2, 4>>]
       [] n = 2 -> [line |-> 3, fires |-> {"empty-function", "undocumented-exported", "function-naming"}, kids |-> <<3>>]
       [] n = 3 -> [line |-> 4, fires |-> {}, kids |-> <<>>]
       [] n = 4 -> [line |-> 9, fires |-> {"panic-usage"}, kids |-> <<>>]]
TreeB ==
  [n \in 1..2 |->
     CASE n = 1 -> [line |-> 1, fires |-> {}, kids |-> <<2>>]
       [] n = 2 -> [line |-> 2, fires |-> {"CS001"}, kids |-> <<>>]]
TreeE ==
  [n \in 1..4 |->
     CASE n = 1 -> [line |-> 1, fires |-> {}, kids |-> <<2, 3>>]
       [] n = 2 -> [line |-> 5, fires |-> {"too-many-params", "error-handling"}, kids |-> <<4>>]
       [] n = 3 -> [line |-> 7, fires |-> {"CS003", "init-misuse"}, kids |-> <<>>]
       [] n = 4 -> [line |-> 6, fires |-> {"panic-usage"}, kids |-> <<>>]]
EmptyTree == [n \in 1..1 |-> [line |-> 1, fires |-> {}, kids |-> <<>>]]

\* What the file system holds for each file the scanner may hand to
\* Analyze: status is "ok", "badsyntax" (parser.ParseFile fails) or
\* "unreadable" (ioutil.ReadFile fails).
FileCatalog ==
  { [Path |-> <<"/", "r", "/", "a">>, RelPath |-> <<"a">>, status |-> "ok",         tree |-> TreeA],
    [Path |-> <<"/", "r", "/", "b">>, RelPath |-> <<"b">>, status |-> "ok",         tree |-> TreeB],
    [Path |-> <<"/", "r", "/", "e">>, RelPath |-> <<"e">>, status |-> "ok",         tree |-> TreeE],
    [Path |-> <<"/", "r", "/", "c">>, RelPath |-> <<"c">>, status |-> "badsyntax",  tree |-> EmptyTree],
    [Path |-> <<"/", "r", "/", "d">>, RelPath |-> <<"d">>, status |-> "unreadable", tree |-> EmptyTree] }

(* ------------------------------------------------------------------ *)
(* Analyzer.analyzeFile                                                *)
(* ------------------------------------------------------------------ *)

RECURSIVE InspectKids(_, _)
RECURSIVE Inspect(_, _)
\* ast.Inspect: the callback is called with the node, then (the callback
\* returns true) with every child's subtree in order, then with nil (0).
Inspect(tree, n) == <<n>> \o InspectKids(tree, tree[n].kids) \o <<0>>
InspectKids(tree, kids) ==
  IF kids = <<>> THEN <<>> ELSE Inspect(tree, Head(kids)) \o InspectKids(tree, Tail(kids))

RECURSIVE ApplyFamily(_, _, _)
\* One "for _, p := range family" loop of the callback on one node: every
\* non-nil issue gets File = file.RelPath and is appended.
ApplyFamily(family, file, node) ==
  IF family = <<>> THEN <<>>
  ELSE [k \in DOMAIN Detector(Head(family), file.Path, node) |->
          [Detector(Head(family), file.Path, node)[k] EXCEPT !.File = file.RelPath]]
       \o ApplyFamily(Tail(family), file, node)

\* The callback body with the custom security rules applied first.
VisitNode_SecurityFirst(file, node) ==
  ApplyFamily(securityRules, file, node) \o ApplyFamily(patterns, file, node)
    \o ApplyFamily(antiPatterns, file, node) \o ApplyFamily(bestPractices, file, node)

\* The callback body for a non-nil node: the four family loops in order.
VisitNode(file, node) ==
  ApplyFamily(patterns, file, node) \o ApplyFamily(antiPatterns, file, node)
    \o ApplyFamily(bestPractices, file, node) \o ApplyFamily(securityRules, file, node)

RECURSIVE VisitAll(_, _)
\* The callback over the whole event sequence of ast.Inspect; nil is skipped.
VisitAll(file, events) ==
  IF events = <<>> THEN <<>>
  ELSE (IF Head(events) = 0 THEN <<>> ELSE VisitNode(file, file.tree[Head(events)]))
       \o VisitAll(file, Tail(events))

\* analyzeFile: (issues, err). A read or parse failure returns (nil, err).
analyzeFile(file) ==
  IF file.status # "ok"
  THEN [issues |-> <<>>, err |-> file.status]
  ELSE [issues |-> VisitAll(file, Inspect(file.tree, 1)), err |-> "nil"]

(* ------------------------------------------------------------------ *)
(* GosecScanner.Scan                                                   *)
(* ------------------------------------------------------------------ *)

\* mapGosecSeverity that passes gosec's label on.
mapGosecSeverity_Raw(severity) == severity

\* mapGosecSeverity
mapGosecSeverity(severity) ==
  CASE severity = "HIGH" -> "critical"
    [] severity = "MEDIUM" -> "high"
    [] severity = "LOW" -> "medium"
    [] OTHER -> "low"

\* strings.ToLower on the confidence labels gosec prints.
ToLower(s) ==
  CASE s = "HIGH" -> "high"
    [] s = "MEDIUM" -> "medium"
    [] s = "LOW" -> "low"
    [] OTHER -> s

\* strconv.Atoi with the error dropped: 0 for a string that is no number.
Atoi(s) ==
  CASE s = "5" -> 5
    [] s = "2" -> 2
    [] OTHER -> 0

\* filepath.Rel(repoPath, file) for a file below repoPath; the file itself
\* when it is not below it.
RelTo(repoPath, file) ==
  IF Len(repoPath) <= Len(file) /\ SubSeq(file, 1, Len(repoPath)) = repoPath
  THEN SubSeq(file, Len(repoPath) + 1, Len(file))
  ELSE file

\* Entries of gosec's JSON report.
GosecG101 == [Severity |-> "HIGH", Confidence |-> "HIGH", Rule |-> "G101", Details |-> "hardcoded credentials",
              File |-> <<"/", "r", "/", "a">>, Line |-> "5"]
GosecG104 == [Severity |-> "LOW", Confidence |-> "MEDIUM", Rule |-> "G104", Details |-> "errors unhandled",
              File |-> <<"/", "r", "/", "b">>, Line |-> "2"]
GosecG999 == [Severity |-> "UNDEFINED", Confidence |-> "LOW", Rule |-> "G999", Details |-> "other",
              File |-> <<"/", "x">>, Line |-> ""]

\* What running gosec can leave behind: no usable report (the command or
\* the read or the JSON parse fails) or a report with a list of entries.
GosecRuns ==
  { [ok |-> FALSE, Issues |-> <<>>],
    [ok |-> TRUE, Issues |-> <<>>],
    [ok |-> TRUE, Issues |-> <<GosecG101>>],
    [ok |-> TRUE, Issues |-> <<GosecG101, GosecG104>>],
    [ok |-> TRUE, Issues |-> <<GosecG999, GosecG101>>] }

\* The conversion loop of Scan: one issue per report entry, in order.
ConvertGosec(repoPath, entries) ==
  [k \in DOMAIN entries |->
     [File |-> RelTo(repoPath, entries[k].File), Line |-> Atoi(entries[k].Line),
      Message |-> entries[k].Details, Category |-> "security",
      Severity |-> mapGosecSeverity(entries[k].Severity),
      Confidence |-> ToLower(entries[k].Confidence), Rule |-> entries[k].Rule]]

\* Scan(repoPath) given what the gosec run produced: (issues, err).
Scan(repoPath, run) ==
  IF ~run.ok
  THEN [issues |-> <<>>, err |-> "gosec"]
  ELSE [issues |-> ConvertGosec(repoPath, run.Issues), err |-> "nil"]

(* ------------------------------------------------------------------ *)
(* Analyzer.Analyze: state                                             *)
(* ------------------------------------------------------------------ *)

VARIABLES
  files,           \* the []*models.File handed to Analyze
  Verbose,         \* config.Verbose
  pc,              \* position of the coordinator (the goroutine running Analyze)
  idx,             \* position of the "for _, file := range files" loop
  wg,              \* sync.WaitGroup counter
  mutex,           \* sync.Mutex: 0 free, i held by unit i, -1 held by the coordinator
  upc,             \* position of each per-file goroutine
  uissues,         \* each goroutine's local "issues"
  uold,            \* the value of results.Issues each goroutine's append has read
  results,         \* the *Results under construction
  securityIssues,  \* the coordinator's local "securityIssues"
  scanErr,         \* the coordinator's local "err" of the Scan call: "none" before it
  scanCalls,       \* the repoPath argument of every securityScanner.Scan call, in order
  stderr,          \* the lines println wrote
  retErr           \* the error Analyze returned: "none" until it returns

varsA == <<files, Verbose, pc, idx, wg, mutex, upc, uissues, uold, results, securityIssues,
           scanErr, scanCalls, stderr, retErr>>

Units == 1..Len(files)

\* The loop of Analyze that recovers the repository path from the first
\* file: the path up to the first position whose suffix equals RelPath,
\* the whole path when no suffix does.
RepoPathOf(file) ==
  LET cut == {i \in 0..(Len(file.Path) - 1) :
                SubSeq(file.Path, i + 1, Len(file.Path)) = file.RelPath}
  IN IF cut = {} THEN file.Path ELSE SubSeq(file.Path, 1, Min(cut))

\* Number of issues of a list with a given severity.
CountSeverity(issues, severity) ==
  Cardinality({k \in DOMAIN issues : issues[k].Severity = severity})

(* ------------------------------------------------------------------ *)
(* Ranking engine (internal/ml, internal/cmd): state                   *)
(* ------------------------------------------------------------------ *)

VARIABLES
  EnableLearning,  \* config.EnableLearning
  issueData,       \* DataCollector.issueData: rule -> sequence of LearningData
  heap,            \* the models.Issue objects the caller's pointers refer to
  given,           \* the values of the findings when the caller got them
  callerIssues,    \* the caller's []*models.Issue (pointers into heap)
  ranked,          \* the list the last ranking call returned
  insights,        \* the insights the last ApplyLearning call returned
  rankErr,         \* the error the last ApplyLearning call returned
  rpc,             \* what the caller has done so far
  sortMemo,        \* the sort.Slice calls made so far: <<input, output>>
  again            \* the result of a second execution on an equal list

varsR == <<EnableLearning, issueData, heap, given, callerIssues, ranked, insights, rankErr, rpc,
           sortMemo, again>>

(* ------------------------------------------------------------------ *)
(* Feedback store (internal/ml: DataCollector): state                  *)
(* ------------------------------------------------------------------ *)

VARIABLES
  disk,            \* data/learning_data.json: absent, corrupt or a document
  last,            \* the last store operation: arguments, result, state before it
  prev,            \* the store operation before the last: the call and its error
  steps,           \* number of store operations so far
  collectors       \* further DataCollectors over the same data directory

varsS == <<disk, last, prev, steps, collectors>>

vars == <<varsA, varsR, varsS>>

(* ------------------------------------------------------------------ *)
(* Analyzer.Analyze: steps                                             *)
(* ------------------------------------------------------------------ *)

\* The ranking engine is not part of a run of Analyze.
RankIdle ==
  /\ EnableLearning = FALSE
  /\ issueData = <<>>
  /\ heap = <<>>
  /\ given = <<>>
  /\ callerIssues = <<>>
  /\ ranked = <<>>
  /\ insights = <<>>
  /\ rankErr = "none"
  /\ rpc = "idle"
  /\ sortMemo = {}
  /\ again = <<>>

\* No store operation is part of the run.
StoreIdle ==
  /\ disk = [kind |-> "absent", doc |-> <<>>]
  /\ last = <<>>
  /\ prev = <<>>
  /\ steps = 0
  /\ collectors = <<>>

Init ==
  /\ files \in DistinctSeqs(FileCatalog, MaxFiles)
  /\ Verbose \in BOOLEAN
  /\ pc = "loop"
  /\ idx = 1
  /\ wg = 0
  /\ mutex = 0
  /\ upc = [i \in 1..Len(files) |-> "idle"]
  /\ uissues = [i \in 1..Len(files) |-> <<>>]
  /\ uold = [i \in 1..Len(files) |-> <<>>]
  /\ results = [Issues |-> <<>>, TotalIssues |-> 0, CriticalIssues |-> 0, HighIssues |-> 0,
                MediumIssues |-> 0, LowIssues |-> 0]
  /\ securityIssues = <<>>
  /\ scanErr = "none"
  /\ scanCalls = <<>>
  /\ stderr = <<>>
  /\ retErr = "none"
  /\ RankIdle
  /\ StoreIdle

\* One iteration of the range loop: wg.Add(1) and the go statement.
Spawn ==
  /\ pc = "loop"
  /\ idx <= Len(files)
  /\ wg' = wg + 1
  /\ upc' = [upc EXCEPT ![idx] = "start"]
  /\ idx' = idx + 1
  /\ UNCHANGED <<files, Verbose, pc, mutex, uissues, uold, results, securityIssues, scanErr, scanCalls, stderr, retErr, varsR, varsS>>

\* UnitAnalyze with the error printed whether or not Verbose is set.
UnitAnalyze_AlwaysLogs(i) ==
  /\ upc[i] = "start"
  /\ LET r == analyzeFile(files[i])
     IN IF r.err # "nil"
        THEN /\ stderr' = Append(stderr, [what |-> "Error analyzing file", path |-> files[i].Path])
             /\ upc' = [upc EXCEPT ![i] = "exit"]
             /\ UNCHANGED uissues
        ELSE /\ uissues' = [uissues EXCEPT ![i] = r.issues]
             /\ upc' = [upc EXCEPT ![i] = "lock"]
             /\ UNCHANGED stderr
  /\ UNCHANGED <<files, Verbose, pc, idx, wg, mutex, uold, results, securityIssues, scanErr, scanCalls, retErr, varsR, varsS>>

\* The goroutine's call of analyzeFile and its error branch.
UnitAnalyze(i) ==
  /\ upc[i] = "start"
  /\ LET r == analyzeFile(files[i])
     IN IF r.err # "nil"
        THEN /\ stderr' = IF Verbose
                          THEN Append(stderr, [what |-> "Error analyzing file", path |-> files[i].Path])
                          ELSE stderr
             /\ upc' = [upc EXCEPT ![i] = "exit"]
             /\ UNCHANGED uissues
        ELSE /\ uissues' = [uissues EXCEPT ![i] = r.issues]
             /\ upc' = [upc EXCEPT ![i] = "lock"]
             /\ UNCHANGED stderr
  /\ UNCHANGED <<files, Verbose, pc, idx, wg, mutex, uold, results, securityIssues, scanErr, scanCalls, retErr, varsR, varsS>>

\* UnitLock that does not wait for the mutex to be free.
UnitLock_NoMutex(i) ==
  /\ upc[i] = "lock"
  /\ mutex' = i
  /\ upc' = [upc EXCEPT ![i] = "append"]
  /\ UNCHANGED <<files, Verbose, pc, idx, wg, uissues, uold, results, securityIssues, scanErr, scanCalls, stderr, retErr, varsR, varsS>>

\* mutex.Lock() in the goroutine.
UnitLock(i) ==
  /\ upc[i] = "lock"
  /\ mutex = 0
  /\ mutex' = i
  /\ upc' = [upc EXCEPT ![i] = "append"]
  /\ UNCHANGED <<files, Verbose, pc, idx, wg, uissues, uold, results, securityIssues, scanErr, scanCalls, stderr, retErr, varsR, varsS>>

\* results.Issues = append(results.Issues, issues...) in the goroutine,
\* first half: append reads the slice results.Issues.
UnitAppendRead(i) ==
  /\ upc[i] = "append"
  /\ uold' = [uold EXCEPT ![i] = results.Issues]
  /\ upc' = [upc EXCEPT ![i] = "store"]
  /\ UNCHANGED <<files, Verbose, pc, idx, wg, mutex, uissues, results, securityIssues, scanErr, scanCalls, stderr, retErr, varsR, varsS>>

\* UnitAppendStore that appends one issue per critical section and gives
\* the mutex up between two issues.
UnitAppendStore_PerIssue(i) ==
  /\ upc[i] = "store"
  /\ IF Len(uissues[i]) <= 1
     THEN /\ results' = [results EXCEPT !.Issues = uold[i] \o uissues[i]]
          /\ upc' = [upc EXCEPT ![i] = "unlock"]
          /\ UNCHANGED <<uissues, mutex>>
     ELSE /\ results' = [results EXCEPT !.Issues = Append(uold[i], Head(uissues[i]))]
          /\ uissues' = [uissues EXCEPT ![i] = Tail(uissues[i])]
          /\ mutex' = 0
          /\ upc' = [upc EXCEPT ![i] = "lock"]
  /\ UNCHANGED <<files, Verbose, pc, idx, wg, uold, securityIssues, scanErr, scanCalls, stderr, retErr, varsR, varsS>>

\* Second half: the slice that append built is stored into results.Issues.
UnitAppendStore(i) ==
  /\ upc[i] = "store"
  /\ results' = [results EXCEPT !.Issues = uold[i] \o uissues[i]]
  /\ upc' = [upc EXCEPT ![i] = "unlock"]
  /\ UNCHANGED <<files, Verbose, pc, idx, wg, mutex, uissues, uold, securityIssues, scanErr, scanCalls, stderr, retErr, varsR, varsS>>

\* mutex.Unlock() in the goroutine.
UnitUnlock(i) ==
  /\ upc[i] = "unlock"
  /\ mutex' = 0
  /\ upc' = [upc EXCEPT ![i] = "exit"]
  /\ UNCHANGED <<files, Verbose, pc, idx, wg, uissues, uold, results, securityIssues, scanErr, scanCalls, stderr, retErr, varsR, varsS>>

\* A goroutine that calls wg.Done() only after the append, not when
\* analyzeFile failed.
UnitDone_NotOnFailure(i) ==
  /\ upc[i] = "exit"
  /\ wg' = IF analyzeFile(files[i]).err # "nil" THEN wg ELSE wg - 1
  /\ upc' = [upc EXCEPT ![i] = "done"]
  /\ UNCHANGED <<files, Verbose, pc, idx, mutex, uissues, uold, results, securityIssues, scanErr, scanCalls, stderr, retErr, varsR, varsS>>

\* The deferred wg.Done() of the goroutine, on either return.
UnitDone(i) ==
  /\ upc[i] = "exit"
  /\ wg' = wg - 1
  /\ upc' = [upc EXCEPT ![i] = "done"]
  /\ UNCHANGED <<files, Verbose, pc, idx, mutex, uissues, uold, results, securityIssues, scanErr, scanCalls, stderr, retErr, varsR, varsS>>

\* Wait that returns as soon as the loop is over.
Wait_NoJoin ==
  /\ pc = "loop"
  /\ idx > Len(files)
  /\ pc' = "scan"
  /\ UNCHANGED <<files, Verbose, idx, wg, mutex, upc, uissues, uold, results, securityIssues, scanErr, scanCalls, stderr, retErr, varsR, varsS>>

\* wg.Wait(): returns once the loop is over and the counter is zero.
Wait ==
  /\ pc = "loop"
  /\ idx > Len(files)
  /\ wg = 0
  /\ pc' = "scan"
  /\ UNCHANGED <<files, Verbose, idx, wg, mutex, upc, uissues, uold, results, securityIssues, scanErr, scanCalls, stderr, retErr, varsR, varsS>>

\* RunScanner that returns the scanner's error from Analyze.
RunScanner_Abort ==
  /\ pc = "scan"
  /\ Len(files) > 0
  /\ \E run \in GosecRuns :
       LET repoPath == RepoPathOf(files[1])
           r == Scan(repoPath, run)
       IN /\ scanCalls' = Append(scanCalls, repoPath)
          /\ scanErr' = r.err
          /\ IF r.err # "nil"
             THEN /\ results' = [results EXCEPT !.Issues = <<>>]
                  /\ retErr' = r.err
                  /\ pc' = "done"
                  /\ UNCHANGED securityIssues
             ELSE /\ securityIssues' = r.issues
                  /\ pc' = "merge"
                  /\ UNCHANGED <<results, retErr>>
  /\ UNCHANGED <<files, Verbose, idx, wg, mutex, upc, uissues, uold, stderr, varsR, varsS>>

\* "if len(files) > 0": the repository path and the Scan call, with its
\* error branch.
RunScanner ==
  /\ pc = "scan"
  /\ Len(files) > 0
  /\ \E run \in GosecRuns :
       LET repoPath == RepoPathOf(files[1])
           r == Scan(repoPath, run)
       IN /\ scanCalls' = Append(scanCalls, repoPath)
          /\ scanErr' = r.err
          /\ IF r.err # "nil"
             THEN /\ stderr' = IF Verbose
                               THEN Append(stderr, [what |-> "Error running security scanner", path |-> repoPath])
                               ELSE stderr
                  /\ pc' = "count"
                  /\ UNCHANGED securityIssues
             ELSE /\ securityIssues' = r.issues
                  /\ pc' = "merge"
                  /\ UNCHANGED stderr
  /\ UNCHANGED <<files, Verbose, idx, wg, mutex, upc, uissues, uold, results, retErr, varsR, varsS>>

\* "if len(files) > 0" not taken: no scan for an empty file list.
SkipScanner ==
  /\ pc = "scan"
  /\ Len(files) = 0
  /\ pc' = "count"
  /\ UNCHANGED <<files, Verbose, idx, wg, mutex, upc, uissues, uold, results, securityIssues, scanErr, scanCalls, stderr, retErr, varsR, varsS>>

\* mutex.Lock(); results.Issues = append(results.Issues, securityIssues...);
\* mutex.Unlock() in the coordinator.
MergeSecurity ==
  /\ pc = "merge"
  /\ mutex = 0
  /\ results' = [results EXCEPT !.Issues = results.Issues \o securityIssues]
  /\ pc' = "count"
  /\ UNCHANGED <<files, Verbose, idx, wg, mutex, upc, uissues, uold, securityIssues, scanErr, scanCalls, stderr, retErr, varsR, varsS>>

\* CountAndReturn that returns the error of a failed file.
CountAndReturn_FailFast ==
  /\ pc = "count"
  /\ results' = [results EXCEPT !.TotalIssues = Len(results.Issues),
                                !.CriticalIssues = CountSeverity(results.Issues, "critical"),
                                !.HighIssues = CountSeverity(results.Issues, "high"),
                                !.MediumIssues = CountSeverity(results.Issues, "medium"),
                                !.LowIssues = CountSeverity(results.Issues, "low")]
  /\ retErr' = IF \E i \in Units : analyzeFile(files[i]).err # "nil" THEN "failed" ELSE "nil"
  /\ pc' = "done"
  /\ UNCHANGED <<files, Verbose, idx, wg, mutex, upc, uissues, uold, securityIssues, scanErr, scanCalls, stderr, varsR, varsS>>

\* CountAndReturn whose switch counts a critical issue as a high one.
CountAndReturn_CriticalAsHigh ==
  /\ pc = "count"
  /\ results' = [results EXCEPT !.TotalIssues = Len(results.Issues),
                                !.CriticalIssues = 0,
                                !.HighIssues = CountSeverity(results.Issues, "high")
                                                 + CountSeverity(results.Issues, "critical"),
                                !.MediumIssues = CountSeverity(results.Issues, "medium"),
                                !.LowIssues = CountSeverity(results.Issues, "low")]
  /\ retErr' = "nil"
  /\ pc' = "done"
  /\ UNCHANGED <<files, Verbose, idx, wg, mutex, upc, uissues, uold, securityIssues, scanErr, scanCalls, stderr, varsR, varsS>>

\* The counting loop over results.Issues and "return results, nil".
CountAndReturn ==
  /\ pc = "count"
  /\ results' = [results EXCEPT !.TotalIssues = Len(results.Issues),
                                !.CriticalIssues = CountSeverity(results.Issues, "critical"),
                                !.HighIssues = CountSeverity(results.Issues, "high"),
                                !.MediumIssues = CountSeverity(results.Issues, "medium"),
                                !.LowIssues = CountSeverity(results.Issues, "low")]
  /\ retErr' = "nil"
  /\ pc' = "done"
  /\ UNCHANGED <<files, Verbose, idx, wg, mutex, upc, uissues, uold, securityIssues, scanErr, scanCalls, stderr, varsR, varsS>>

Next ==
  \/ Spawn
  \/ \E i \in Units : UnitAnalyze(i)
  \/ \E i \in Units : UnitLock(i)
  \/ \E i \in Units : UnitAppendRead(i)
  \/ \E i \in Units : UnitAppendStore(i)
  \/ \E i \in Units : UnitUnlock(i)
  \/ \E i \in Units : UnitDone(i)
  \/ Wait
  \/ RunScanner
  \/ SkipScanner
  \/ MergeSecurity
  \/ CountAndReturn

Spec == Init /\ [][Next]_vars

\* Files in the file sets termination is checked for.
MaxFair == 2

\* Analyze called with a file set of at most MaxFair files.
InitFair == Init /\ Len(files) <= MaxFair

\* Analyze under a scheduler that runs a goroutine that can take a step:
\* analyzeFile and the scanner return, and no goroutine is starved forever
\* while it is the only one able to proceed.
SpecFair == InitFair /\ [][Next]_vars /\ WF_vars(Next)

(* ------------------------------------------------------------------ *)
(* Properties of Analyzer.Analyze                                      *)
(* ------------------------------------------------------------------ *)

\* What analyzeFile returns for the file of unit i.
FindingsOf(i) == analyzeFile(files[i]).issues
Failed(i) == analyzeFile(files[i]).err # "nil"
OkUnits == {i \in Units : ~Failed(i)}
FailedUnits == {i \in Units : Failed(i)}

\* The findings of all files, as a multiset.
PerFileBag == SeqToBag(Concat([k \in 1..Len(files) |-> FindingsOf(k)]))

RECURSIVE NumWith(_, _)
\* Number of issues with a severity, by recursion on the list.
NumWith(issues, severity) ==
  IF issues = <<>> THEN 0
  ELSE (IF Head(issues).Severity = severity THEN 1 ELSE 0) + NumWith(Tail(issues), severity)

RECURSIVE NumInFile(_, _)
\* Number of issues reported for a file.
NumInFile(issues, rel) ==
  IF issues = <<>> THEN 0
  ELSE (IF Head(issues).File = rel THEN 1 ELSE 0) + NumInFile(Tail(issues), rel)

\* The blocks of the units of a sequence, one after the other.
BlocksInOrder(order) == Concat([k \in 1..Len(order) |-> FindingsOf(order[k])])

\* The lines println wrote about a file.
Logged(i) == \E k \in DOMAIN stderr : stderr[k].what = "Error analyzing file" /\ stderr[k].path = files[i].Path

\* C1: when Analyze returns, Results.Issues holds, as a multiset, exactly
\* the findings analyzeFile returned for the successfully analyzed files
\* plus the findings the security scanner returned, under every
\* interleaving of the per-file goroutines.
C1_NoFindingLostOrDuplicated ==
  pc = "done" => SeqToBag(results.Issues) = PerFileBag (+) SeqToBag(securityIssues)

\* C1 witness: a run over three files that all produced findings, merged
\* with scanner findings, has returned.
C1_Witness ==
  /\ pc = "done"
  /\ Cardinality(OkUnits) = 3
  /\ securityIssues # <<>>
  /\ Len(results.Issues) = Len(FindingsOf(1)) + Len(FindingsOf(2)) + Len(FindingsOf(3)) + Len(securityIssues)

\* C2: if analyzeFile fails for a file, Analyze still returns a nil error,
\* the failing file adds no finding to Results.Issues (the only issues on
\* that file are the scanner's) and every finding of every other file is
\* in Results.Issues.
C2_FailingFileSkippedOnly ==
  (pc = "done" /\ FailedUnits # {}) =>
     /\ retErr = "nil"
     /\ \A i \in FailedUnits :
          NumInFile(results.Issues, files[i].RelPath) = NumInFile(securityIssues, files[i].RelPath)
     /\ \A j \in OkUnits : SeqToBag(FindingsOf(j)) \sqsubseteq SeqToBag(results.Issues)

\* C2 witness: a finished run with a failing file between two files that
\* produced findings.
C2_Witness ==
  /\ pc = "done"
  /\ Len(files) = 3
  /\ Failed(2) /\ ~Failed(1) /\ ~Failed(3)
  /\ Len(results.Issues) >= Len(FindingsOf(1)) + Len(FindingsOf(3))
  /\ FindingsOf(1) # <<>> /\ FindingsOf(3) # <<>>

\* C3: in the final list the findings of each file form one contiguous
\* block in the order analyzeFile returned them; the blocks follow each
\* other in some order of the units, and the scanner's findings come last.
C3_BlocksContiguous ==
  pc = "done" =>
     \E order \in Orderings(OkUnits) : results.Issues = BlocksInOrder(order) \o securityIssues

\* C3 witness: a finished run whose blocks are in another order than the
\* input files.
C3_Witness ==
  /\ pc = "done"
  /\ OkUnits = {1, 2, 3}
  /\ results.Issues = BlocksInOrder(<<3, 1, 2>>) \o securityIssues
  /\ BlocksInOrder(<<3, 1, 2>>) # BlocksInOrder(<<1, 2, 3>>)

\* C4 as stated: in every run, for any number of files, the scanner has
\* been invoked exactly once when Analyze returns.
C4_ScannerExactlyOnceEveryRun ==
  pc = "done" => Len(scanCalls) = 1

\* C4 amended: the scanner is invoked at most once, only after every
\* per-file goroutine has finished, and a finished run has invoked it
\* exactly once when the file list is non-empty and not at all when it is
\* empty.
C4_ScannerOnceAfterUnitsIfFiles ==
  /\ Len(scanCalls) <= 1
  /\ scanCalls # <<>> => \A i \in Units : upc[i] = "done"
  /\ pc = "done" => Len(scanCalls) = (IF Len(files) > 0 THEN 1 ELSE 0)

\* C4 witness: the scanner has just been invoked in a run over three files.
C4_Witness ==
  /\ Len(scanCalls) = 1
  /\ Len(files) = 3
  /\ pc \in {"merge", "count"}

\* C5: when Analyze returns, TotalIssues is the length of Results.Issues
\* and the four severity counts are the numbers of merged findings of that
\* severity; before the return (while findings are still merged) all
\* counts are zero.
C5_CountsMatchMergedList ==
  /\ pc = "done" =>
       /\ results.TotalIssues = Len(results.Issues)
       /\ results.CriticalIssues = NumWith(results.Issues, "critical")
       /\ results.HighIssues = NumWith(results.Issues, "high")
       /\ results.MediumIssues = NumWith(results.Issues, "medium")
       /\ results.LowIssues = NumWith(results.Issues, "low")
       /\ SeqToBag(results.Issues) = PerFileBag (+) SeqToBag(securityIssues)
  /\ pc # "done" =>
       /\ results.TotalIssues = 0 /\ results.CriticalIssues = 0 /\ results.HighIssues = 0
       /\ results.MediumIssues = 0 /\ results.LowIssues = 0

\* C5 witness: a finished run with findings of all four severities, some
\* of them from the scanner.
C5_Witness ==
  /\ pc = "done"
  /\ results.CriticalIssues >= 2 /\ results.HighIssues >= 1
  /\ results.MediumIssues >= 1 /\ results.LowIssues >= 1
  /\ securityIssues # <<>>

\* C6: if the scanner call fails, Analyze returns a nil error and a result
\* with all per-file findings and no scanner finding.
C6_ScannerFailureDegrades ==
  (pc = "done" /\ scanErr \notin {"none", "nil"}) =>
     /\ retErr = "nil"
     /\ securityIssues = <<>>
     /\ SeqToBag(results.Issues) = PerFileBag
     /\ results.TotalIssues = Len(Concat([k \in 1..Len(files) |-> FindingsOf(k)]))

\* C6 witness: a finished run whose scanner call failed after per-file
\* findings were merged.
C6_Witness ==
  /\ pc = "done"
  /\ scanErr = "gosec"
  /\ Len(results.Issues) >= 2

GetAcceptanceRate_ZeroDefault(store, ruleID) ==
  IF ruleID \notin DOMAIN store \/ Len(store[ruleID]) = 0
  THEN <<0, 1>>
  ELSE <<Cardinality({k \in DOMAIN store[ruleID] : store[ruleID][k].Accepted}), Len(store[ruleID])>>

\* GetAcceptanceRate: 0.5 without history, else accepted / total.
GetAcceptanceRate(store, ruleID) ==
  IF ruleID \notin DOMAIN store \/ Len(store[ruleID]) = 0
  THEN <<1, 2>>
  ELSE <<Cardinality({k \in DOMAIN store[ruleID] : store[ruleID][k].Accepted}), Len(store[ruleID])>>

\* rate >= num / den
AtLeast(rate, num, den) == rate[1] * den >= num * rate[2]

\* GetRuleConfidence
GetRuleConfidence(store, ruleID) ==
  IF AtLeast(GetAcceptanceRate(store, ruleID), 8, 10) THEN "high"
  ELSE IF AtLeast(GetAcceptanceRate(store, ruleID), 5, 10) THEN "medium"
  ELSE "low"

\* The swap of rates[i] and rates[j] in GetTopRules.
\* An exchange that leaves the rule IDs where they are.
SwapAt_Keeps(rates, i, j) == rates

SwapAt(rates, i, j) == [rates EXCEPT ![i] = rates[j], ![j] = rates[i]]

RECURSIVE SortRates(_, _, _, _)
\* The two nested loops of GetTopRules over the rule IDs: position j is
\* swapped into position i when its rate is strictly greater.
SortRates(store, rates, i, j) ==
  IF i > Len(rates) THEN rates
  ELSE IF j > Len(rates) THEN SortRates(store, rates, i + 1, i + 2)
  ELSE LET rj == GetAcceptanceRate(store, rates[j])
           ri == GetAcceptanceRate(store, rates[i])
       IN SortRates(store, IF rj[1] * ri[2] > ri[1] * rj[2] THEN SwapAt(rates, i, j) ELSE rates, i, j + 1)

\* GetTopRules(n), given the order in which the map iteration met the keys.
GetTopRules(store, order, n) ==
  LET sorted == SortRates(store, order, 1, 2)
      m == IF n < 0 THEN 0 ELSE IF n < Len(sorted) THEN n ELSE Len(sorted)
  IN SubSeq(sorted, 1, m)

(* ------------------------------------------------------------------ *)
(* Ranking (internal/ml: LearningEngine)                               *)
(* ------------------------------------------------------------------ *)

\* AdjustIssueConfidence that takes the rule's confidence over.
AdjustIssueConfidence_Jumps(enabled, store, issue) ==
  IF ~enabled THEN issue
  ELSE [issue EXCEPT !.Confidence = GetRuleConfidence(store, issue.Rule)]

\* AdjustIssueConfidence: the issue as the call leaves it.
AdjustIssueConfidence(enabled, store, issue) ==
  IF ~enabled THEN issue
  ELSE LET confidence == GetRuleConfidence(store, issue.Rule)
       IN CASE issue.Confidence = "high" ->
                 IF confidence = "low" THEN [issue EXCEPT !.Confidence = "medium"] ELSE issue
            [] issue.Confidence = "medium" ->
                 IF confidence = "high" THEN [issue EXCEPT !.Confidence = "high"]
                 ELSE IF confidence = "low" THEN [issue EXCEPT !.Confidence = "low"]
                 ELSE issue
            [] issue.Confidence = "low" ->
                 IF confidence = "high" THEN [issue EXCEPT !.Confidence = "medium"] ELSE issue
            [] OTHER -> issue

\* The filter test with a strict comparison.
KeepIssue_Strict(store, issue) ==
  LET rate == GetAcceptanceRate(store, issue.Rule)
  IN 10 * rate[1] > 3 * rate[2]

\* The test of the filter loop: the issue is kept.
KeepIssue(store, issue) == AtLeast(GetAcceptanceRate(store, issue.Rule), 3, 10)

RECURSIVE FilterLoop(_, _, _)
\* The loop of FilterIssues over the pointers of list.
FilterLoop(store, h, list) ==
  IF list = <<>> THEN <<>>
  ELSE (IF KeepIssue(store, h[Head(list)]) THEN <<Head(list)>> ELSE <<>>)
       \o FilterLoop(store, h, Tail(list))

\* FilterIssues that drops nothing.
FilterIssues_Off(enabled, store, h, list) == list

\* FilterIssues
FilterIssues(enabled, store, h, list) ==
  IF ~enabled THEN list ELSE FilterLoop(store, h, list)

\* getSeverityScore
getSeverityScore(severity) ==
  CASE severity = "critical" -> 4
    [] severity = "high" -> 3
    [] severity = "medium" -> 2
    [] severity = "low" -> 1
    [] OTHER -> 0

\* The less function comparing severities alone.
ScoreGreater_SeverityOnly(store, a, b) == getSeverityScore(a.Severity) > getSeverityScore(b.Severity)

\* The less function of SortIssues: iScore > jScore, with
\* score = severity * (0.5 + 0.5 * rate) = severity * (total + accepted) / (2 * total).
ScoreGreater(store, a, b) ==
  LET ra == GetAcceptanceRate(store, a.Rule)
      rb == GetAcceptanceRate(store, b.Rule)
  IN getSeverityScore(a.Severity) * (ra[2] + ra[1]) * rb[2]
       > getSeverityScore(b.Severity) * (rb[2] + rb[1]) * ra[2]

\* SortIssues: sort.Slice on a copy. sort.Slice promises a permutation
\* ordered by the less function and no more (it is not a stable sort), so
\* every such permutation is a possible result.
SortIssues(enabled, store, h, list) ==
  IF ~enabled \/ Len(list) <= 1 THEN {list}
  ELSE {sorted \in Orderings({list[k] : k \in DOMAIN list}) :
          \A i, j \in DOMAIN sorted : i < j => ~ScoreGreater(store, h[sorted[j]], h[sorted[i]])}

\* What the less function of SortIssues reads of a list.
SortInput(h, list) == [k \in DOMAIN list |-> <<h[list[k]].Severity, h[list[k]].Rule>>]

\* The positions the elements of sorted had in list.
PositionsOf(list, sorted) == [k \in DOMAIN sorted |-> CHOOSE i \in DOMAIN list : list[i] = sorted[k]]

\* SortIssues by a sort that may order an input it has seen differently.
SortIssuesGiven_Forgetful(memo, enabled, store, h, list) == SortIssues(enabled, store, h, list)

\* SortIssues in a process that has made the sort.Slice calls of memo:
\* sort.Slice is an algorithm without a source of randomness, so an input
\* (length and less results) it has sorted comes out as it did before.
SortIssuesGiven(memo, enabled, store, h, list) ==
  IF ~enabled \/ Len(list) <= 1 THEN {list}
  ELSE IF \E call \in memo : call[1] = SortInput(h, list)
       THEN {[k \in DOMAIN list |-> list[call[2][k]]] : call \in {c \in memo : c[1] = SortInput(h, list)}}
       ELSE SortIssues(enabled, store, h, list)

\* The sort.Slice calls made once SortIssues has returned sorted for list.
Remember(memo, enabled, h, list, sorted) ==
  IF ~enabled \/ Len(list) <= 1 THEN memo
  ELSE memo \cup {<<SortInput(h, list), PositionsOf(list, sorted)>>}

\* Number of issues of the list with the rule.
RuleCount(h, list, rule) == Cardinality({k \in DOMAIN list : h[list[k]].Rule = rule})

\* AnalyzeProjectPatterns: a header and one line per rule that occurs at
\* least 3 times, in the order the map iteration met the rules; the count
\* is printed as two characters, '0'+count/10 and '0'+count%10.
AnalyzeProjectPatterns(enabled, h, list) ==
  IF ~enabled THEN {<<>>}
  ELSE LET frequentRules == {h[list[k]].Rule : k \in {x \in DOMAIN list : RuleCount(h, list, h[list[x]].Rule) >= 3}}
       IN IF frequentRules = {} THEN {<<>>}
          ELSE {<<[kind |-> "Common issues in this project:", rule |-> "", tens |-> 0, ones |-> 0]>>
                  \o [k \in DOMAIN order |->
                        [kind |-> "occurs", rule |-> order[k],
                         tens |-> RuleCount(h, list, order[k]) \div 10,
                         ones |-> RuleCount(h, list, order[k]) % 10]]
                : order \in Orderings(frequentRules)}

\* SuggestCustomRules: one suggestion per rule of GetTopRules(5).
SuggestCustomRules(enabled, store) ==
  IF ~enabled THEN {<<>>}
  ELSE {[k \in DOMAIN GetTopRules(store, order, 5) |->
           [kind |-> "Consider creating custom rules similar to", rule |-> GetTopRules(store, order, 5)[k],
            tens |-> 0, ones |-> 0]]
        : order \in Orderings(DOMAIN store)}

\* The issues a list of pointers refers to.
Deref(h, list) == [k \in DOMAIN list |-> h[list[k]]]

(* ------------------------------------------------------------------ *)
(* Ranking: inputs                                                     *)
(* ------------------------------------------------------------------ *)

\* The findings handed to the ranking engine.
IssueKinds ==
  { [File |-> <<"a">>, Line |-> 5, Message |-> "hardcoded credentials", Category |-> "security",
     Severity |-> "critical", Confidence |-> "high", Rule |-> "G101"],
    [File |-> <<"a">>, Line |-> 7, Message |-> "hardcoded credentials", Category |-> "security",
     Severity |-> "critical", Confidence |-> "medium", Rule |-> "G101"],
    [File |-> <<"b">>, Line |-> 2, Message |-> "hardcoded credentials in test", Category |-> "security",
     Severity |-> "medium", Confidence |-> "low", Rule |-> "G101"],
    [File |-> <<"e">>, Line |-> 5, Message |-> "error-handling", Category |-> "best-practice",
     Severity |-> "high", Confidence |-> "medium", Rule |-> "error-handling"],
    [File |-> <<"e">>, Line |-> 9, Message |-> "error-handling", Category |-> "best-practice",
     Severity |-> "info", Confidence |-> "high", Rule |-> "error-handling"] }

\* Lists of at most n distinct findings.
IssueLists(n) == DistinctSeqs(IssueKinds, n)

\* The rules the stored history is about.
StoreRules == {"G101", "error-handling"}

\* A history of t records of a rule of which the first a are accepted.
History(rule, t, a) ==
  [k \in 1..t |->
     [Issue |-> [File |-> <<"a">>, Line |-> k, Message |-> "hardcoded credentials", Category |-> "security",
                 Severity |-> "critical", Confidence |-> "high", Rule |-> rule],
      Accepted |-> (k <= a), Repository |-> <<"/", "r", "/">>]]

\* The histories of a rule with at most n records.
RuleHistories(rule, n) ==
  {History(rule, ta[1], ta[2]) : ta \in {x \in (0..n) \X (0..n) : x[2] <= x[1]}}

RECURSIVE TotalRecords(_)
\* Number of records of a store.
TotalRecords(store) ==
  IF DOMAIN store = {} THEN 0
  ELSE LET r == CHOOSE x \in DOMAIN store : TRUE
       IN Len(store[r]) + TotalRecords([x \in DOMAIN store \ {r} |-> store[x]])

\* Stores over any of the rules (a rule may be absent or have an empty
\* list) with at most MaxHistory records in all.
SmallStores ==
  UNION {{store \in [D -> UNION {RuleHistories(r, MaxHistory) : r \in D}] :
            /\ \A r \in D : store[r] \in RuleHistories(r, MaxHistory)
            /\ TotalRecords(store) <= MaxHistory}
         : D \in SUBSET StoreRules}

\* Stores with a longer history of one rule.
DeepStores == {[r \in {"G101"} |-> history] : history \in RuleHistories("G101", MaxRecords)}

(* ------------------------------------------------------------------ *)
(* Ranking: steps                                                      *)
(* ------------------------------------------------------------------ *)

\* A run of Analyze is not part of a ranking call.
AnalyzeIdle ==
  /\ files = <<>>
  /\ Verbose = FALSE
  /\ pc = "idle"
  /\ idx = 1
  /\ wg = 0
  /\ mutex = 0
  /\ upc = <<>>
  /\ uissues = <<>>
  /\ uold = <<>>
  /\ results = [Issues |-> <<>>, TotalIssues |-> 0, CriticalIssues |-> 0, HighIssues |-> 0,
                MediumIssues |-> 0, LowIssues |-> 0]
  /\ securityIssues = <<>>
  /\ scanErr = "none"
  /\ scanCalls = <<>>
  /\ stderr = <<>>
  /\ retErr = "none"

\* A caller holding a finding list and an engine whose store is loaded.
InitRank ==
  /\ AnalyzeIdle
  /\ EnableLearning \in BOOLEAN
  /\ \/ issueData \in SmallStores /\ given \in IssueLists(MaxIssues)
     \/ issueData \in DeepStores /\ given \in IssueLists(MaxIssues - 2)
  /\ heap = given
  /\ callerIssues = [k \in DOMAIN given |-> k]
  /\ ranked = <<>>
  /\ insights = <<>>
  /\ rankErr = "none"
  /\ rpc = "ready"
  /\ sortMemo = {}
  /\ again = <<>>
  /\ disk = [kind |-> "document", doc |-> issueData]
  /\ last = <<>>
  /\ prev = <<>>
  /\ steps = 0
  /\ collectors = <<>>

\* cmd.ApplyLearning(issues, repository, cfg) for a configuration whose
\* learning switch is enabled, on the list the caller holds; the caller
\* keeps the returned list when the error is nil.
ApplyLearningCall(enabled) ==
  /\ rpc \in {"ready", "applied"}
  /\ rpc' = IF rpc = "ready" THEN "applied" ELSE "applied twice"
  /\ IF ~enabled
     THEN /\ ranked' = callerIssues
          /\ insights' = <<>>
          /\ rankErr' = "nil"
          /\ UNCHANGED <<heap, callerIssues, sortMemo>>
     ELSE \E engineOk \in BOOLEAN :
            IF ~engineOk
            THEN /\ ranked' = callerIssues
                 /\ insights' = <<>>
                 /\ rankErr' = "failed to create learning engine"
                 /\ UNCHANGED <<heap, callerIssues, sortMemo>>
            ELSE LET adjusted == [id \in DOMAIN heap |->
                                    IF \E k \in DOMAIN callerIssues : callerIssues[k] = id
                                    THEN AdjustIssueConfidence(enabled, issueData, heap[id])
                                    ELSE heap[id]]
                     filteredIssues == FilterIssues(enabled, issueData, adjusted, callerIssues)
                 IN \E sortedIssues \in SortIssuesGiven(sortMemo, enabled, issueData, adjusted, filteredIssues),
                       projectPatterns \in AnalyzeProjectPatterns(enabled, adjusted, callerIssues),
                       customRules \in SuggestCustomRules(enabled, issueData) :
                      /\ heap' = adjusted
                      /\ ranked' = sortedIssues
                      /\ sortMemo' = Remember(sortMemo, enabled, adjusted, filteredIssues, sortedIssues)
                      /\ callerIssues' = sortedIssues
                      /\ insights' = IF Len(customRules) > 0
                                     THEN projectPatterns
                                            \o <<[kind |-> "Suggested custom rules:", rule |-> "", tens |-> 0, ones |-> 0]>>
                                            \o customRules
                                     ELSE projectPatterns
                      /\ rankErr' = "nil"
  /\ UNCHANGED <<varsA, varsS, again, EnableLearning, issueData, given>>

\* ApplyLearning that ranks whatever the switch says.
ApplyLearning_IgnoresSwitch == ApplyLearningCall(TRUE)

\* cmd.ApplyLearning under the configured switch.
ApplyLearning == ApplyLearningCall(EnableLearning)

\* engine.AdjustIssueConfidence(issue) on the k-th finding of the caller.
CallAdjustIssueConfidence(k) ==
  /\ rpc = "ready"
  /\ k \in DOMAIN callerIssues
  /\ heap' = [heap EXCEPT ![callerIssues[k]] = AdjustIssueConfidence(EnableLearning, issueData, heap[callerIssues[k]])]
  /\ ranked' = <<callerIssues[k]>>
  /\ rpc' = "adjusted"
  /\ UNCHANGED <<varsA, varsS, sortMemo, again, EnableLearning, issueData, given, callerIssues, insights, rankErr>>

\* engine.FilterIssues(issues) on the caller's list.
CallFilterIssues ==
  /\ rpc = "ready"
  /\ ranked' = FilterIssues(EnableLearning, issueData, heap, callerIssues)
  /\ rpc' = "filtered"
  /\ UNCHANGED <<varsA, varsS, sortMemo, again, EnableLearning, issueData, heap, given, callerIssues, insights, rankErr>>

\* engine.SortIssues(issues) on the caller's list.
CallSortIssues ==
  /\ rpc = "ready"
  /\ \E sorted \in SortIssuesGiven(sortMemo, EnableLearning, issueData, heap, callerIssues) :
        /\ ranked' = sorted
        /\ sortMemo' = Remember(sortMemo, EnableLearning, heap, callerIssues, sorted)
  /\ rpc' = "sorted"
  /\ UNCHANGED <<varsA, varsS, again, EnableLearning, issueData, heap, given, callerIssues, insights, rankErr>>

\* The ranking steps of ApplyLearning (adjust every finding, filter,
\* sort) run once more by the same engine on an equal list: new findings
\* with the values the caller's findings had.
RankAgain ==
  /\ rpc = "applied"
  /\ rankErr = "nil"
  /\ LET adjusted == [id \in DOMAIN given |-> AdjustIssueConfidence(EnableLearning, issueData, given[id])]
         filteredIssues == FilterIssues(EnableLearning, issueData, adjusted, [k \in DOMAIN given |-> k])
     IN \E sortedIssues \in SortIssuesGiven(sortMemo, EnableLearning, issueData, adjusted, filteredIssues) :
          /\ again' = [ranked |-> sortedIssues, issues |-> Deref(adjusted, sortedIssues)]
          /\ sortMemo' = Remember(sortMemo, EnableLearning, adjusted, filteredIssues, sortedIssues)
  /\ rpc' = "repeated"
  /\ UNCHANGED <<varsA, varsS, EnableLearning, issueData, heap, given, callerIssues, ranked, insights, rankErr>>

NextRank ==
  \/ ApplyLearning
  \/ RankAgain
  \/ \E k \in 1..MaxIssues : CallAdjustIssueConfidence(k)
  \/ CallFilterIssues
  \/ CallSortIssues

SpecRank == InitRank /\ [][NextRank]_vars

(* ------------------------------------------------------------------ *)
(* Ranking: properties                                                 *)
(* ------------------------------------------------------------------ *)

\* The list <<1, ..., n>> of the pointers the caller started with.
GivenList == [k \in DOMAIN given |-> k]

\* The acceptance rate of the rule of a finding of the caller.
RateOf(id) == GetAcceptanceRate(issueData, given[id].Rule)

\* The rule of the finding has no history.
NoHistory(id) == given[id].Rule \notin DOMAIN issueData \/ issueData[given[id].Rule] = <<>>

\* The members of a list.
Members(list) == {list[k] : k \in DOMAIN list}

\* C8: with learning disabled, ApplyLearning (once or repeatedly) returns
\* the list it was given, same elements in the same order, changes no
\* field of any finding, and returns no insights and no error; the engine
\* calls it is made of leave the list and the findings alone as well.
C8_DisabledIsPassThrough ==
  ~EnableLearning =>
     /\ heap = given
     /\ callerIssues = GivenList
     /\ rpc \in {"applied", "applied twice"} =>
          /\ ranked = GivenList
          /\ Deref(heap, ranked) = given
          /\ insights = <<>>
          /\ rankErr = "nil"
     /\ rpc \in {"filtered", "sorted"} => ranked = GivenList

\* C8 witness: ApplyLearning applied twice with learning disabled to three
\* findings, one of which an enabled engine would drop and one of which it
\* would relabel.
C8_Witness ==
  /\ ~EnableLearning
  /\ rpc = "applied twice"
  /\ Len(given) = 3
  /\ ranked = <<1, 2, 3>>
  /\ \E id \in DOMAIN given : ~AtLeast(RateOf(id), 3, 10)
  /\ \E id \in DOMAIN given : AdjustIssueConfidence(TRUE, issueData, given[id]) # given[id]

\* C9: with learning enabled, one call of AdjustIssueConfidence moves the
\* confidence one step up (high stays) when the rule's rate is >= 0.8, one
\* step down (low stays) when it is < 0.5, and leaves it when it is in
\* between, which covers every rule without history; no other field and no
\* other finding changes.
C9_AdjustOneStepByRate ==
  (EnableLearning /\ rpc = "adjusted") =>
     LET id == ranked[1]
         before == given[id]
         after == heap[id]
         r == RateOf(id)
         up == [c \in {"low", "medium", "high"} |-> IF c = "low" THEN "medium" ELSE "high"]
         down == [c \in {"low", "medium", "high"} |-> IF c = "high" THEN "medium" ELSE "low"]
     IN /\ 10 * r[1] >= 8 * r[2] => after.Confidence = up[before.Confidence]
        /\ 10 * r[1] < 5 * r[2] => after.Confidence = down[before.Confidence]
        /\ (10 * r[1] >= 5 * r[2] /\ 10 * r[1] < 8 * r[2]) => after.Confidence = before.Confidence
        /\ NoHistory(id) => after = before
        /\ [after EXCEPT !.Confidence = before.Confidence] = before
        /\ \A other \in DOMAIN heap \ {id} : heap[other] = given[other]

\* C9 witness: a medium finding of a rule with rate 4/5 after one call,
\* now high.
C9_Witness ==
  /\ EnableLearning
  /\ rpc = "adjusted"
  /\ RateOf(ranked[1]) = <<4, 5>>
  /\ given[ranked[1]].Confidence = "medium"
  /\ heap[ranked[1]].Confidence = "high"

\* C10: FilterIssues of an enabled engine returns exactly the findings
\* whose rule's rate is not below 0.3, in their input order; a finding of
\* a rule without history and a finding of a rule with rate exactly 0.3
\* are kept; the list ApplyLearning returns has the same members.
C10_FilterRemovesExactlyLowRate ==
  EnableLearning =>
     /\ rpc = "filtered" =>
          /\ Members(ranked) = {id \in DOMAIN given : ~(10 * RateOf(id)[1] < 3 * RateOf(id)[2])}
          /\ \A i, j \in DOMAIN ranked : i < j => ranked[i] < ranked[j]
          /\ \A id \in DOMAIN given : NoHistory(id) => id \in Members(ranked)
          /\ \A id \in DOMAIN given : 10 * RateOf(id)[1] = 3 * RateOf(id)[2] => id \in Members(ranked)
          /\ heap = given
     /\ (rpc \in {"applied", "applied twice"} /\ rankErr = "nil") =>
          /\ Members(ranked) = {id \in DOMAIN given : ~(10 * RateOf(id)[1] < 3 * RateOf(id)[2])}
          /\ Len(ranked) = Cardinality(Members(ranked))

\* C10 witness: of three findings the middle one, of a rule with a rate
\* below 0.3, is removed and the other two, of a rule without history,
\* are returned in their order.
C10_Witness ==
  /\ EnableLearning
  /\ rpc = "filtered"
  /\ Len(given) = 3
  /\ ranked = <<1, 3>>
  /\ NoHistory(1) /\ NoHistory(3)
  /\ 10 * RateOf(2)[1] < 3 * RateOf(2)[2]

\* severityScore x (0.5 + 0.5 x acceptanceRate(rule)) of a finding of the
\* caller, as the fraction <<numerator, denominator>>.
ScoreOf(id) ==
  LET severityScore == CASE given[id].Severity = "critical" -> 4
                         [] given[id].Severity = "high" -> 3
                         [] given[id].Severity = "medium" -> 2
                         [] given[id].Severity = "low" -> 1
                         [] OTHER -> 0
  IN <<severityScore * (RateOf(id)[2] + RateOf(id)[1]), 2 * RateOf(id)[2]>>

\* C11: SortIssues of an enabled engine returns a permutation of its input
\* whose scores are non-increasing from front to back, and leaves the
\* caller's slice and the findings as they were.
C11_SortedByScoreDescending ==
  (EnableLearning /\ rpc = "sorted") =>
     /\ Len(ranked) = Len(GivenList)
     /\ Members(ranked) = Members(GivenList)
     /\ callerIssues = GivenList
     /\ heap = given
     /\ \A i, j \in DOMAIN ranked :
          i < j => ScoreOf(ranked[i])[1] * ScoreOf(ranked[j])[2] >= ScoreOf(ranked[j])[1] * ScoreOf(ranked[i])[2]

\* C11 witness: three findings of strictly increasing score, one of
\* unknown severity and one of a rule with history, returned reversed.
C11_Witness ==
  /\ EnableLearning
  /\ rpc = "sorted"
  /\ Len(given) = 3
  /\ ranked = <<3, 2, 1>>
  /\ given[1].Severity = "info"
  /\ \E id \in DOMAIN given : ~NoHistory(id)
  /\ \A i \in 1..2 : ScoreOf(i)[1] * ScoreOf(i + 1)[2] < ScoreOf(i + 1)[1] * ScoreOf(i)[2]

\* C12 as stated: in the list SortIssues returns, two findings of equal
\* score are in the relative order they had in the input.
C12_SortIsStable ==
  rpc = "sorted" =>
     \A i, j \in DOMAIN ranked :
        (i < j /\ ScoreOf(ranked[i])[1] * ScoreOf(ranked[j])[2] = ScoreOf(ranked[j])[1] * ScoreOf(ranked[i])[2])
          => ranked[i] < ranked[j]

(* ------------------------------------------------------------------ *)
(* Feedback store (internal/ml: DataCollector): operations             *)
(* ------------------------------------------------------------------ *)

\* Strings of the store are sequences of characters; "xFF" stands for a
\* byte that is not valid UTF-8 (file names may hold one), "uFFFD" for the
\* replacement rune.

\* encoding/json on a string: invalid bytes become the replacement rune.
ToValidUTF8(str) == [k \in DOMAIN str |-> IF str[k] = "xFF" THEN "uFFFD" ELSE str[k]]

RECURSIVE Sprint(_)
\* fmt.Sprint of a non-negative int: its decimal digits.
Sprint(n) ==
  IF n < 10 THEN <<(<<"0", "1", "2", "3", "4", "5", "6", "7", "8", "9">>)[n + 1]>>
  ELSE Sprint(n \div 10) \o Sprint(n % 10)

\* The key RecordFeedback compares with issueID.
IssueID(issue) == issue.File \o <<":">> \o Sprint(issue.Line) \o <<":">> \o issue.Message

\* A finding of rule R1.
FindingR1 ==
  [File |-> <<"a">>, Line |-> 1, Message |-> <<"m">>, Category |-> "security",
   Severity |-> "high", Confidence |-> "medium", Rule |-> "R1"]

\* A finding of rule R2 with the file, line and message of FindingR1.
FindingR2 == [FindingR1 EXCEPT !.Rule = "R2"]

\* A finding of rule R1 in a file whose name is not valid UTF-8.
FindingBadName ==
  [File |-> <<"xFF">>, Line |-> 12, Message |-> <<"m">>, Category |-> "security",
   Severity |-> "low", Confidence |-> "medium", Rule |-> "R1"]

\* The findings recorded.
StoreFindings == {FindingR1, FindingR2, FindingBadName}

\* The repository argument of RecordIssue.
Repositories == {<<"r">>}

\* The issueID arguments of RecordFeedback: the keys of the findings and
\* one that matches nothing.
FeedbackKeys == {IssueID(f) : f \in StoreFindings} \cup {<<"z">>}

\* The rules GetAcceptanceRate is asked about; "R9" has no records.
RateRules == {"R1", "R2", "R9"}

\* The outcomes of os.WriteFile: written, or failed after the truncation
\* (file no longer a document).
SaveOutcomes == {"ok", "write failed"}

\* The outcomes of the write of a call: no choice if the call writes nothing.
Writes(called) == IF called THEN SaveOutcomes ELSE {"ok"}

\* The JSON value of a models.Issue.
MarshalIssue(issue) == [issue EXCEPT !.File = ToValidUTF8(@), !.Message = ToValidUTF8(@)]

\* json.MarshalIndent(c.issueData) read as a JSON value.
MarshalIndent(m) ==
  [rule \in DOMAIN m |->
     [k \in DOMAIN m[rule] |->
        [Issue |-> MarshalIssue(m[rule][k].Issue),
         Accepted |-> m[rule][k].Accepted,
         Repository |-> ToValidUTF8(m[rule][k].Repository)]]]

\* saveData: the file and the error after it.
saveData(m, d, outcome) ==
  CASE outcome = "ok" -> [disk |-> [kind |-> "document", doc |-> MarshalIndent(m)], err |-> "nil"]
    [] OTHER -> [disk |-> [kind |-> "corrupt", doc |-> <<>>], err |-> "failed to write learning data"]

\* loadData on a new collector: the mapping and the error after it.
loadData(d) ==
  CASE d.kind = "absent" -> [mem |-> <<>>, err |-> "nil"]
    [] d.kind = "corrupt" -> [mem |-> <<>>, err |-> "failed to parse learning data"]
    [] OTHER -> [mem |-> d.doc, err |-> "nil"]

\* The new record put in front of the others.
AppendRecord_Front(m, rule, data) ==
  [r \in DOMAIN m \cup {rule} |->
     IF r = rule THEN <<data>> \o (IF rule \in DOMAIN m THEN m[rule] ELSE <<>>) ELSE m[r]]

\* c.issueData[rule] = append(c.issueData[rule], data)
AppendRecord(m, rule, data) ==
  [r \in DOMAIN m \cup {rule} |->
     IF r = rule THEN (IF rule \in DOMAIN m THEN m[rule] ELSE <<>>) \o <<data>> ELSE m[r]]

\* RecordIssue that stores the finding as accepted.
RecordIssue_AsAccepted(enabled, m, d, issue, repository, outcome) ==
  IF ~enabled THEN [mem |-> m, disk |-> d, err |-> "nil"]
  ELSE LET learningData == [Issue |-> issue, Accepted |-> TRUE, Repository |-> repository]
           appended == AppendRecord(m, issue.Rule, learningData)
       IN [mem |-> appended] @@ saveData(appended, d, outcome)

\* DataCollector.RecordIssue: mapping, file and error after the call.
RecordIssue(enabled, m, d, issue, repository, outcome) ==
  IF ~enabled THEN [mem |-> m, disk |-> d, err |-> "nil"]
  ELSE LET learningData == [Issue |-> issue, Accepted |-> FALSE, Repository |-> repository]
           appended == AppendRecord(m, issue.Rule, learningData)
       IN [mem |-> appended] @@ saveData(appended, d, outcome)

RECURSIVE FirstMatch_Last(_, _, _)
\* The search that returns the last matching record of the rule.
FirstMatch_Last(m, order, issueID) ==
  IF order = <<>> THEN <<>>
  ELSE LET hits == {i \in DOMAIN m[Head(order)] : IssueID(m[Head(order)][i].Issue) = issueID}
       IN IF hits # {} THEN <<Head(order), CHOOSE i \in hits : \A j \in hits : i >= j>>
          ELSE FirstMatch_Last(m, Tail(order), issueID)

RECURSIVE FirstMatch(_, _, _)
\* The loops of RecordFeedback: the first record whose key is issueID,
\* the rules taken in the order the map iteration yields them; <<>> if
\* there is none.
FirstMatch(m, order, issueID) ==
  IF order = <<>> THEN <<>>
  ELSE LET hits == {i \in DOMAIN m[Head(order)] : IssueID(m[Head(order)][i].Issue) = issueID}
       IN IF hits # {} THEN <<Head(order), CHOOSE i \in hits : \A j \in hits : i <= j>>
          ELSE FirstMatch(m, Tail(order), issueID)

\* DataCollector.RecordFeedback: mapping, file and error after the call.
RecordFeedback(enabled, m, d, order, issueID, accepted, outcome) ==
  IF ~enabled THEN [mem |-> m, disk |-> d, err |-> "nil"]
  ELSE LET hit == FirstMatch(m, order, issueID)
       IN IF hit = <<>> THEN [mem |-> m, disk |-> d, err |-> "issue not found"]
          ELSE LET updated == [m EXCEPT ![hit[1]][hit[2]].Accepted = accepted]
               IN [mem |-> updated] @@ saveData(updated, d, outcome)

\* The entry of an operation in last.
Entry(op, learn, arg, flag, res) ==
  [op |-> op, learn |-> learn, arg |-> arg, flag |-> flag, err |-> res.err,
   out |-> IF "out" \in DOMAIN res THEN res.out ELSE <<>>,
   mem0 |-> issueData, disk0 |-> disk, mem |-> res.mem, disk |-> res.disk]

\* What prev keeps of an entry: the call and its error.
Brief(entry) ==
  IF entry = <<>> THEN <<>>
  ELSE [op |-> entry.op, learn |-> entry.learn, arg |-> entry.arg, flag |-> entry.flag, err |-> entry.err]

\* The state after an operation with result res on the current collector.
Done(op, arg, flag, res) ==
  /\ steps < MaxOps
  /\ steps' = steps + 1
  /\ prev' = Brief(last)
  /\ last' = Entry(op, EnableLearning, arg, flag, res)
  /\ issueData' = res.mem
  /\ disk' = res.disk
  /\ UNCHANGED <<varsA, EnableLearning, heap, given, callerIssues, ranked, insights, rankErr, rpc, sortMemo, again, collectors>>

\* The state after a cmd function with result res: the engine it made,
\* configured with learn, is the current one if it could be made.
CmdDone(op, learn, arg, flag, res) ==
  /\ steps < MaxOps
  /\ steps' = steps + 1
  /\ prev' = Brief(last)
  /\ IF loadData(disk).err # "nil"
     THEN /\ last' = Entry(op, learn, arg, flag,
                           [mem |-> issueData, disk |-> disk, err |-> "failed to create learning engine"])
          /\ UNCHANGED <<issueData, disk, EnableLearning>>
     ELSE /\ last' = [Entry(op, learn, arg, flag, res) EXCEPT !.mem0 = loadData(disk).mem]
          /\ issueData' = res.mem
          /\ disk' = res.disk
          /\ EnableLearning' = learn
  /\ UNCHANGED <<varsA, heap, given, callerIssues, ranked, insights, rankErr, rpc, sortMemo, again, collectors>>

\* A new engine: NewLearningEngine(cfg) with cfg.EnableLearning = learn.
NewLearningEngine(learn) ==
  CmdDone("new", learn, <<>>, FALSE, [mem |-> loadData(disk).mem, disk |-> disk, err |-> "nil"])

\* collector.RecordIssue(issue, repository)
CallRecordIssue(issue, repository) ==
  /\ TotalRecords(issueData) < MaxStored
  /\ \E outcome \in Writes(EnableLearning) :
       Done("record", issue, FALSE, RecordIssue(EnableLearning, issueData, disk, issue, repository, outcome))

\* cmd.RecordIssue(issue, repository, cfg)
CmdRecordIssue(learn, issue, repository) ==
  /\ TotalRecords(loadData(disk).mem) < MaxStored
  /\ \E outcome \in Writes(learn) :
       CmdDone("record", learn, issue, FALSE,
               RecordIssue(learn, loadData(disk).mem, disk, issue, repository, outcome))

\* collector.RecordFeedback(issueID, accepted)
CallRecordFeedback(issueID, accepted) ==
  \E order \in Orderings(DOMAIN issueData) :
   \E outcome \in Writes(EnableLearning /\ FirstMatch(issueData, order, issueID) # <<>>) :
     Done("feedback", issueID, accepted,
          RecordFeedback(EnableLearning, issueData, disk, order, issueID, accepted, outcome))

\* cmd.RecordFeedback(issueID, accepted, cfg)
CmdRecordFeedback(learn, issueID, accepted) ==
  \E order \in Orderings(DOMAIN loadData(disk).mem) :
   \E outcome \in Writes(learn /\ FirstMatch(loadData(disk).mem, order, issueID) # <<>>) :
     CmdDone("feedback", learn, issueID, accepted,
             RecordFeedback(learn, loadData(disk).mem, disk, order, issueID, accepted, outcome))

\* collector.GetAcceptanceRate(ruleID)
CallGetAcceptanceRate(ruleID) ==
  Done("rate", ruleID, FALSE,
       [mem |-> issueData, disk |-> disk, err |-> "nil", out |-> GetAcceptanceRate(issueData, ruleID)])

RECURSIVE RecordAll(_)
\* The mapping after RecordIssue of the findings of a list, in order,
\* starting from NewDataCollector's empty map.
RecordAll(list) ==
  IF list = <<>> THEN <<>>
  ELSE RecordIssue(TRUE, RecordAll(SubSeq(list, 1, Len(list) - 1)), <<>>,
                   list[Len(list)], <<"r">>, "ok").mem

\* What earlier runs left in the data directory: nothing, or the document
\* written after recording some findings.
EarlierRuns == {<<>>, <<FindingR1>>, <<FindingR1, FindingR1>>, <<FindingR1, FindingR2>>}

\* A collector just initialized in a data directory earlier runs wrote.
InitStore ==
  /\ AnalyzeIdle
  /\ EnableLearning \in BOOLEAN
  /\ \E list \in EarlierRuns :
        disk = IF list = <<>> THEN [kind |-> "absent", doc |-> <<>>]
               ELSE saveData(RecordAll(list), <<>>, "ok").disk
  /\ issueData = loadData(disk).mem
  /\ heap = <<>> /\ given = <<>> /\ callerIssues = <<>> /\ ranked = <<>> /\ insights = <<>>
  /\ rankErr = "none" /\ rpc = "idle" /\ sortMemo = {} /\ again = <<>>
  /\ last = <<>>
  /\ prev = <<>>
  /\ steps = 0
  /\ collectors = <<>>

NextStore ==
  \/ \E learn \in BOOLEAN : NewLearningEngine(learn)
  \/ \E issue \in StoreFindings, repository \in Repositories : CallRecordIssue(issue, repository)
  \/ \E learn \in BOOLEAN, issue \in StoreFindings, repository \in Repositories :
        CmdRecordIssue(learn, issue, repository)
  \/ \E issueID \in FeedbackKeys, accepted \in BOOLEAN : CallRecordFeedback(issueID, accepted)
  \/ \E learn \in BOOLEAN, issueID \in FeedbackKeys, accepted \in BOOLEAN :
        CmdRecordFeedback(learn, issueID, accepted)
  \/ \E ruleID \in RateRules : CallGetAcceptanceRate(ruleID)

SpecStore == InitStore /\ [][NextStore]_vars

(* ------------------------------------------------------------------ *)
(* Feedback store: properties                                          *)
(* ------------------------------------------------------------------ *)

\* The last operation was op.
LastWas(op) == last # <<>> /\ last.op = op

\* The records of a rule in a mapping.
RecordsOf(m, rule) == IF rule \in DOMAIN m THEN m[rule] ELSE <<>>

\* C13: GetAcceptanceRate(rule) returns exactly 1/2 when the rule has no
\* records and else accepted / total, a value in [0, 1], and changes
\* neither the mapping nor the document.
C13_RateIsAcceptedOverTotal ==
  LastWas("rate") =>
     LET records == RecordsOf(last.mem0, last.arg)
         accepted == Cardinality({k \in DOMAIN records : records[k].Accepted})
     IN /\ records = <<>> => last.out = <<1, 2>>
        /\ records # <<>> => last.out[1] * Len(records) = accepted * last.out[2]
        /\ last.out[2] > 0 /\ 0 <= last.out[1] /\ last.out[1] <= last.out[2]
        /\ issueData = last.mem0 /\ disk = last.disk0

\* C13 witness: the rate of a rule with two records, one of them accepted,
\* has been asked for.
C13_Witness ==
  /\ LastWas("rate")
  /\ Len(RecordsOf(issueData, last.arg)) = 2
  /\ Cardinality({k \in 1..2 : issueData[last.arg][k].Accepted}) = 1
  /\ last.out[1] * 2 = last.out[2]

\* The last operation was op, made with learning enabled by an engine
\* that could be created.
EnabledCall(entry, op) ==
  /\ entry # <<>>
  /\ entry.op = op
  /\ entry.learn
  /\ entry.err # "failed to create learning engine"

\* C14: with learning enabled, record(finding, repository) appends one
\* record with accepted = false at the end of the sequence of the
\* finding's rule and changes no other record; when it returns nil the
\* document holds the new mapping; after two calls for one finding the
\* sequence ends with two records of it.
C14_RecordAppendsOneAndPersists ==
  EnabledCall(last, "record") =>
     LET rule == last.arg.Rule
     IN /\ DOMAIN issueData = DOMAIN last.mem0 \cup {rule}
        /\ issueData[rule] = RecordsOf(last.mem0, rule)
                               \o <<[Issue |-> last.arg, Accepted |-> FALSE, Repository |-> <<"r">>]>>
        /\ \A other \in DOMAIN last.mem0 \ {rule} : issueData[other] = last.mem0[other]
        /\ last.err = "nil" => disk = [kind |-> "document", doc |-> MarshalIndent(issueData)]
        /\ last.err # "nil" => last.err = "failed to write learning data"
        /\ (EnabledCall(prev, "record") /\ prev.arg = last.arg) =>
              /\ Len(issueData[rule]) >= 2
              /\ \A k \in {Len(issueData[rule]) - 1, Len(issueData[rule])} :
                    /\ MarshalIssue(issueData[rule][k].Issue) = MarshalIssue(last.arg)
                    /\ ~issueData[rule][k].Accepted

\* C14 witness: one finding recorded twice in a row under a rule that had
\* a record, both calls returning nil.
C14_Witness ==
  /\ EnabledCall(last, "record") /\ EnabledCall(prev, "record")
  /\ prev.arg = last.arg
  /\ prev.err = "nil" /\ last.err = "nil"
  /\ Len(issueData[last.arg.Rule]) = 3

\* The positions <<rule, index>> of the records of a mapping whose
\* file:line:message is key.
Matches(m, key) ==
  {hit \in UNION {{<<rule, i>> : i \in DOMAIN m[rule]} : rule \in DOMAIN m} :
     IssueID(m[hit[1]][hit[2]].Issue) = key}

\* C15: with learning enabled, feedback(key, accepted) with a matching
\* record sets the flag of one record, the first with that key in the
\* sequence of its rule, changes nothing else, and when it returns nil the
\* document holds the new mapping; without a matching record it returns
\* the not-found error and leaves mapping and document as they were.
C15_FeedbackSetsFirstMatch ==
  EnabledCall(last, "feedback") =>
     IF Matches(last.mem0, last.arg) = {}
     THEN /\ last.err = "issue not found"
          /\ issueData = last.mem0
          /\ disk = last.disk0
     ELSE /\ \E hit \in Matches(last.mem0, last.arg) :
               /\ \A j \in 1..(hit[2] - 1) : <<hit[1], j>> \notin Matches(last.mem0, last.arg)
               /\ issueData = [last.mem0 EXCEPT ![hit[1]][hit[2]].Accepted = last.flag]
          /\ last.err \in {"nil", "failed to write learning data"}
          /\ last.err = "nil" => disk = [kind |-> "document", doc |-> MarshalIndent(issueData)]

\* C15 witness: accepting feedback for a key that two records of one rule
\* have set the flag of the first only, and was persisted.
C15_Witness ==
  /\ EnabledCall(last, "feedback")
  /\ last.flag /\ last.err = "nil"
  /\ \E rule \in DOMAIN issueData :
        /\ Len(issueData[rule]) >= 2
        /\ <<rule, 1>> \in Matches(last.mem0, last.arg) /\ <<rule, 2>> \in Matches(last.mem0, last.arg)
        /\ ~last.mem0[rule][1].Accepted
        /\ issueData[rule][1].Accepted /\ ~issueData[rule][2].Accepted
  /\ disk.kind = "document" /\ disk.doc = MarshalIndent(issueData)

\* C16 as stated: record(f) followed by feedback(key(f), true), both
\* returning nil with learning enabled, leaves the record just appended
\* for f accepted and the rate of f's rule strictly greater than it was
\* right after the record call.
C16_FeedbackReachesNewRecord ==
  ( /\ EnabledCall(prev, "record") /\ prev.err = "nil"
    /\ EnabledCall(last, "feedback") /\ last.err = "nil"
    /\ last.flag
    /\ last.arg = IssueID(prev.arg) ) =>
     LET rule == prev.arg.Rule
         before == GetAcceptanceRate(last.mem0, rule)
         after == GetAcceptanceRate(issueData, rule)
     IN /\ issueData[rule][Len(issueData[rule])].Accepted
        /\ after[1] * before[2] > before[1] * after[2]

\* C17 as stated: after a record or feedback call that returned nil, a
\* new collector initialized from the data directory holds the mapping
\* the collector that made the call holds.
C17_LoadAfterSaveIsIdentity ==
  ((LastWas("record") \/ LastWas("feedback")) /\ last.err = "nil") =>
     loadData(disk) = [mem |-> issueData, err |-> "nil"]

\* C18 as stated: with learning disabled, record and feedback return nil
\* and leave the mapping and the document as they were.
C18_DisabledStoreCallsSucceed ==
  ((LastWas("record") \/ LastWas("feedback")) /\ ~last.learn) =>
     /\ last.err = "nil"
     /\ issueData = last.mem0
     /\ disk = last.disk0

\* C19 as stated: a feedback call that repeats the call before it (same
\* key, same flag, same configuration, neither failing to write) leaves the mapping and the
\* document as the first call left them.
C19_FeedbackTwiceIsOnce ==
  ( /\ LastWas("feedback") /\ prev # <<>> /\ prev.op = "feedback"
    /\ prev.arg = last.arg /\ prev.flag = last.flag /\ prev.learn = last.learn
    /\ prev.err \in {"nil", "issue not found"}
    /\ last.err \in {"nil", "issue not found"} ) =>
     /\ issueData = last.mem0
     /\ disk = last.disk0

MaxTop == 2

\* The rules of those stores.
TopRuleIDs == {"R1", "R2", "R3"}

\* Stores as RecordIssue builds them: every key has at least one record.
TopStores ==
  UNION {{store \in [D -> UNION {RuleHistories(r, MaxTop) : r \in D}] :
            \A r \in D : store[r] \in RuleHistories(r, MaxTop) \ {<<>>}}
         : D \in SUBSET TopRuleIDs}

\* The values of n GetTopRules is asked for.
TopSizes == {-1, 0, 1, 2, 5}

\* strings.Contains(s, substr)
Contains(s, substr) ==
  \E i \in 0..(Len(s) - Len(substr)) : SubSeq(s, i + 1, i + Len(substr)) = substr

\* calculateSimilarity without the message term.
calculateSimilarity_NoMessage(a, b) ==
  (IF a.Rule = b.Rule THEN 10 ELSE 0)
    + (IF a.Severity = b.Severity THEN 5 ELSE 0)
    + (IF a.Confidence = b.Confidence THEN 3 ELSE 0)

\* calculateSimilarity, in tenths.
calculateSimilarity(a, b) ==
  (IF a.Rule = b.Rule THEN 10 ELSE 0)
    + (IF a.Severity = b.Severity THEN 5 ELSE 0)
    + (IF a.Confidence = b.Confidence THEN 3 ELSE 0)
    + (IF Contains(a.Message, b.Message) \/ Contains(b.Message, a.Message) THEN 7 ELSE 0)

RECURSIVE SortedBySimilarity(_, _, _)
\* sort.Slice of the positions S of list by descending similarity to
\* issue: the orders in which no element precedes a more similar one.
SortedBySimilarity(issue, list, S) ==
  IF S = {} THEN {<<>>}
  ELSE UNION {{<<list[x]>> \o rest : rest \in SortedBySimilarity(issue, list, S \ {x})}
              : x \in {y \in S : \A z \in S : calculateSimilarity(issue, list[z]) <= calculateSimilarity(issue, list[y])}}

\* GetSimilarIssues(issue): the lists it can return.
GetSimilarIssues(enabled, store, issue) ==
  IF ~enabled THEN {<<>>}
  ELSE LET history == IF issue.Rule \in DOMAIN store THEN store[issue.Rule] ELSE <<>>
           similarIssues == [k \in DOMAIN history |-> history[k].Issue]
           others == {k \in DOMAIN history :
                        ~(history[k].Issue.File = issue.File /\ history[k].Issue.Line = issue.Line)}
       IN {IF Len(sorted) > 5 THEN SubSeq(sorted, 1, 5) ELSE sorted
             : sorted \in SortedBySimilarity(issue, similarIssues, others)}

\* The finding similar ones are looked up for.
SimilarTo ==
  [File |-> <<"a">>, Line |-> 1, Message |-> <<"m", "x">>, Category |-> "security",
   Severity |-> "high", Confidence |-> "medium", Rule |-> "S1"]

\* The findings GetSimilarIssues is asked about: one recorded before at
\* its location, one at a new location, one of a rule without history.
SimilarQueries == {SimilarTo, [SimilarTo EXCEPT !.Line = 9], [SimilarTo EXCEPT !.Rule = "S9"]}

\* Earlier findings of rule S1, in the order they were recorded: the first
\* is SimilarTo itself, the others differ from it in location and in some
\* of severity, confidence and message.
SimilarPool ==
  << SimilarTo,
     [SimilarTo EXCEPT !.Line = 2, !.Confidence = "high", !.Message = <<"q">>],
     [SimilarTo EXCEPT !.Line = 3, !.Severity = "low", !.Message = <<"q">>],
     [SimilarTo EXCEPT !.Line = 4, !.Confidence = "high", !.Message = <<"m">>],
     [SimilarTo EXCEPT !.File = <<"b">>, !.Severity = "low", !.Confidence = "high", !.Message = <<"m", "x", "y">>],
     [SimilarTo EXCEPT !.Line = 6, !.Message = <<"x", "m">>],
     [SimilarTo EXCEPT !.File = <<"b">>, !.Line = 7, !.Severity = "low", !.Message = <<"q">>] >>

RECURSIVE Pick(_, _)
\* The elements of list at the positions S, in order.
Pick(list, S) ==
  IF list = <<>> THEN <<>>
  ELSE Pick(SubSeq(list, 1, Len(list) - 1), S) \o (IF Len(list) \in S THEN <<list[Len(list)]>> ELSE <<>>)

\* Stores holding some of the pool under rule S1, recorded in the pool's
\* order or in the opposite one.
SimilarStores ==
  LET backwards == [k \in DOMAIN SimilarPool |-> SimilarPool[Len(SimilarPool) + 1 - k]]
      asRecords(list) == [k \in DOMAIN list |-> [Issue |-> list[k], Accepted |-> FALSE, Repository |-> <<"r">>]]
  IN {[rule \in {"S1"} |-> asRecords(Pick(order, S))]
        : order \in {SimilarPool, backwards}, S \in SUBSET (DOMAIN SimilarPool) \ {{}}}

\* The state after the one query made on the engine, with result out.
Query(op, arg, out) ==
  /\ last = <<>>
  /\ Done(op, arg, FALSE, [mem |-> issueData, disk |-> disk, err |-> "nil", out |-> out])

\* c.GetTopRules(n); the map iteration meets the keys in some order.
CallGetTopRules(n) ==
  \E order \in Orderings(DOMAIN issueData) : Query("top", n, GetTopRules(issueData, order, n))

\* e.SuggestCustomRules().
CallSuggestCustomRules ==
  \E out \in SuggestCustomRules(EnableLearning, issueData) : Query("suggest", 5, out)

\* e.GetSimilarIssues(issue).
CallGetSimilarIssues(issue) ==
  \E out \in GetSimilarIssues(EnableLearning, issueData, issue) : Query("similar", issue, out)

\* An engine whose store is loaded, before its query.
InitQuery ==
  /\ AnalyzeIdle
  /\ EnableLearning \in BOOLEAN
  /\ issueData \in TopStores \cup SimilarStores
  /\ heap = <<>> /\ given = <<>> /\ callerIssues = <<>> /\ ranked = <<>> /\ insights = <<>>
  /\ rankErr = "none" /\ rpc = "idle" /\ sortMemo = {} /\ again = <<>>
  /\ disk = [kind |-> "document", doc |-> issueData]
  /\ last = <<>>
  /\ prev = <<>>
  /\ steps = 0
  /\ collectors = <<>>

NextQuery ==
  \/ \E n \in TopSizes : CallGetTopRules(n)
  \/ CallSuggestCustomRules
  \/ \E issue \in SimilarQueries : CallGetSimilarIssues(issue)

SpecQuery == InitQuery /\ [][NextQuery]_vars

\* Accepted records over records of a rule that has records.
AcceptedShare(m, rule) == <<Cardinality({k \in DOMAIN m[rule] : m[rule][k].Accepted}), Len(m[rule])>>

\* Rate a is strictly greater than rate b.
RateGreater(a, b) == a[1] * b[2] > b[1] * a[2]

\* list is a choice of the n best-accepted rules of m, best first.
IsTopOf(list, m, n) ==
  /\ Len(list) = (IF n <= 0 THEN 0 ELSE IF n < Cardinality(DOMAIN m) THEN n ELSE Cardinality(DOMAIN m))
  /\ \A i, j \in DOMAIN list : i # j => list[i] # list[j]
  /\ \A k \in DOMAIN list : list[k] \in DOMAIN m
  /\ \A i, j \in DOMAIN list : i < j => ~RateGreater(AcceptedShare(m, list[j]), AcceptedShare(m, list[i]))
  /\ \A r \in DOMAIN m \ Members(list) : \A k \in DOMAIN list :
        ~RateGreater(AcceptedShare(m, r), AcceptedShare(m, list[k]))

\* C21: GetTopRules(n) returns min(n, number of rules of the store)
\* distinct keys of the store in non-increasing acceptance rate, no rule
\* left out having a strictly higher rate than one returned, and nothing
\* for n <= 0; an enabled SuggestCustomRules emits one suggestion per rule
\* of GetTopRules(5), in that order.
C21_TopRulesAreTheBestRated ==
  /\ LastWas("top") =>
        /\ IsTopOf(last.out, issueData, last.arg)
        /\ (last.arg <= 0 => last.out = <<>>)
        /\ issueData = last.mem0
  /\ (LastWas("suggest") /\ last.learn) =>
        /\ IsTopOf([k \in DOMAIN last.out |-> last.out[k].rule], issueData, 5)
        /\ \A k \in DOMAIN last.out : last.out[k].kind = "Consider creating custom rules similar to"

\* C21 witness: two of three rules with three different rates were asked
\* for, and the best two came back, best first.
C21_Witness ==
  /\ LastWas("top")
  /\ last.arg = 2
  /\ Cardinality(DOMAIN issueData) = 3
  /\ Len(last.out) = 2
  /\ RateGreater(AcceptedShare(issueData, last.out[1]), AcceptedShare(issueData, last.out[2]))
  /\ \A r \in DOMAIN issueData \ Members(last.out) :
        RateGreater(AcceptedShare(issueData, last.out[2]), AcceptedShare(issueData, r))

(* ------------------------------------------------------------------ *)
(* Commands (cmd/code-review-assistant: main, analyzeCode)             *)
(* ------------------------------------------------------------------ *)

\* Findings in the aggregate of one analysis run.
MaxFound == 2

\* Commands run one after the other.
MaxCmds == 2

\* config.DefaultConfig(), as far as learning goes.
DefaultConfig == [EnableLearning |-> TRUE]

\* loadConfig: the learning switch is the -learn flag.
loadConfig(enableLearning) == [DefaultConfig EXCEPT !.EnableLearning = enableLearning]

\* The aggregates Analyze returns to analyzeCode.
FoundLists == DistinctSeqs(StoreFindings, MaxFound)

\* The aggregate of Analyze for the findings it collected.
AnalysisResults(list) ==
  [Issues |-> list, TotalIssues |-> Len(list),
   CriticalIssues |-> CountSeverity(list, "critical"), HighIssues |-> CountSeverity(list, "high"),
   MediumIssues |-> CountSeverity(list, "medium"), LowIssues |-> CountSeverity(list, "low")]

\* An aggregate counted anew for the list put into it.
ReplaceIssues_Recounted(res, list) == AnalysisResults(list)

\* results.Issues = sortedIssues
ReplaceIssues(res, list) == [res EXCEPT !.Issues = list]

\* cmd.ApplyLearning(issues, repository, cfg) on the data directory d: the
\* lists, insights and errors it can return.
ApplyLearningOn(cfg, d, list) ==
  IF ~cfg.EnableLearning THEN {[issues |-> list, insights |-> <<>>, err |-> "nil"]}
  ELSE IF loadData(d).err # "nil"
  THEN {[issues |-> list, insights |-> <<>>, err |-> "failed to create learning engine"]}
  ELSE LET store == loadData(d).mem
           all == [k \in DOMAIN list |-> k]
           adjusted == [k \in DOMAIN list |-> AdjustIssueConfidence(TRUE, store, list[k])]
           filteredIssues == FilterIssues(TRUE, store, adjusted, all)
       IN {[issues |-> Deref(adjusted, sortedIssues),
            insights |-> IF Len(customRules) > 0
                         THEN projectPatterns
                                \o <<[kind |-> "Suggested custom rules:", rule |-> "", tens |-> 0, ones |-> 0]>>
                                \o customRules
                         ELSE projectPatterns,
            err |-> "nil"]
           : sortedIssues \in SortIssues(TRUE, store, adjusted, filteredIssues),
             projectPatterns \in AnalyzeProjectPatterns(TRUE, adjusted, all),
             customRules \in SuggestCustomRules(TRUE, store)}

RECURSIVE RecordEach(_, _, _, _, _)
\* The recording loop of analyzeCode: cmd.RecordIssue for each finding in
\* turn, each with an engine of its own; the data directory and the
\* warnings after it.
RecordEach(cfg, d, list, repoPath, outcomes) ==
  IF list = <<>> THEN [disk |-> d, warnings |-> <<>>]
  ELSE LET one == IF loadData(d).err # "nil"
                  THEN [disk |-> d, err |-> "failed to create learning engine"]
                  ELSE RecordIssue(cfg.EnableLearning, loadData(d).mem, d, Head(list), repoPath, Head(outcomes))
           rest == RecordEach(cfg, one.disk, Tail(list), repoPath, Tail(outcomes))
       IN [disk |-> rest.disk,
           warnings |-> (IF one.err # "nil" THEN <<"Warning: failed to record issue for learning">> ELSE <<>>)
                          \o rest.warnings]

\* What a command leaves in last: its flags, what it printed and the data
\* directory before and after it.
Ran(op, learn, arg, flag, err, out, d) ==
  [op |-> op, learn |-> learn, arg |-> arg, flag |-> flag, err |-> err, out |-> out,
   mem0 |-> loadData(disk).mem, disk0 |-> disk, mem |-> loadData(d).mem, disk |-> d]

\* The state after a command that left d in the data directory; no
\* collector outlives the command.
Exit(entry, learn, d) ==
  /\ steps < MaxCmds
  /\ steps' = steps + 1
  /\ prev' = IF last = <<>> THEN <<>> ELSE Brief(last) @@ [disk0 |-> last.disk0]
  /\ last' = entry
  /\ disk' = d
  /\ EnableLearning' = learn
  /\ UNCHANGED <<varsA, issueData, heap, given, callerIssues, ranked, insights, rankErr, rpc, sortMemo, again, collectors>>

\* code-review-assistant -analyze [-learn] on a repository for which
\* Analyze returns the findings found: analyzeCode with text output.
MainAnalyze(learnCmd, found, repoPath) ==
  LET cfg == loadConfig(learnCmd)
      res0 == AnalysisResults(found)
  IN \E applied \in ApplyLearningOn(cfg, disk, found) :
      \E outcomes \in [DOMAIN applied.issues -> Writes(cfg.EnableLearning)] :
        LET recorded == IF cfg.EnableLearning
                        THEN RecordEach(cfg, disk, applied.issues, repoPath, outcomes)
                        ELSE [disk |-> disk, warnings |-> <<>>]
            printed == (IF cfg.EnableLearning /\ applied.err = "nil"
                        THEN ReplaceIssues(res0, applied.issues) ELSE res0)
                         @@ [insights |-> applied.insights,
                             stderr |-> (IF applied.err # "nil"
                                         THEN <<"Warning: failed to apply machine learning">> ELSE <<>>)
                                          \o recorded.warnings]
        IN Exit(Ran("analyze", learnCmd, found, FALSE, "nil", printed, recorded.disk), learnCmd, recorded.disk)

\* code-review-assistant -feedback -issue-id issueID [-accepted] [-learn].
MainFeedback(learnCmd, issueID, accepted) ==
  LET cfg == loadConfig(learnCmd)
  IN IF issueID = <<>>
     THEN Exit(Ran("feedback", learnCmd, issueID, accepted, "issue-id is required",
                   [exit |-> 1, stdout |-> "", stderr |-> "Error: issue-id is required for feedback command"], disk),
               learnCmd, disk)
     ELSE IF loadData(disk).err # "nil"
     THEN Exit(Ran("feedback", learnCmd, issueID, accepted, "failed to create learning engine",
                   [exit |-> 1, stdout |-> "", stderr |-> "Error recording feedback"], disk),
               learnCmd, disk)
     ELSE \E order \in Orderings(DOMAIN loadData(disk).mem) :
           \E outcome \in Writes(cfg.EnableLearning /\ FirstMatch(loadData(disk).mem, order, issueID) # <<>>) :
             LET res == RecordFeedback(cfg.EnableLearning, loadData(disk).mem, disk, order, issueID, accepted, outcome)
             IN Exit(Ran("feedback", learnCmd, issueID, accepted, res.err,
                         IF res.err # "nil"
                         THEN [exit |-> 1, stdout |-> "", stderr |-> "Error recording feedback"]
                         ELSE [exit |-> 0, stdout |-> "Feedback recorded for issue", stderr |-> ""],
                         res.disk),
                     learnCmd, res.disk)

\* No command has run yet: a fresh installation, or a data directory
\* earlier learning runs wrote.
InitMain ==
  /\ AnalyzeIdle
  /\ RankIdle
  /\ \E list \in EarlierRuns :
        disk = IF list = <<>> THEN [kind |-> "absent", doc |-> <<>>]
               ELSE saveData(RecordAll(list), <<>>, "ok").disk
  /\ last = <<>>
  /\ prev = <<>>
  /\ steps = 0
  /\ collectors = <<>>

NextMain ==
  \/ \E learnCmd \in BOOLEAN, found \in FoundLists, repoPath \in Repositories :
        MainAnalyze(learnCmd, found, repoPath)
  \/ \E learnCmd \in BOOLEAN, issueID \in FeedbackKeys \cup {<<>>}, accepted \in BOOLEAN :
        MainFeedback(learnCmd, issueID, accepted)

SpecMain == InitMain /\ [][NextMain]_vars

\* The feedback command did what the claim says of it: a matching record
\* is accepted in the persisted store, and an unmatched issue id is
\* reported as an error.
FeedbackTookEffect ==
  IF Matches(last.mem0, last.arg) # {}
  THEN /\ last.out.exit = 0
       /\ loadData(disk).err = "nil"
       /\ \E hit \in Matches(loadData(disk).mem, last.arg) : loadData(disk).mem[hit[1]][hit[2]].Accepted
  ELSE /\ last.out.exit = 1
       /\ disk = last.disk0

\* C22 as stated: the documented feedback command (-feedback -issue-id
\* id -accepted, no -learn) accepts a matching record in the persisted
\* store and reports an error for an issue id that matches no record.
C22_DocumentedFeedbackCommandWorks ==
  (LastWas("feedback") /\ ~last.learn /\ last.flag /\ last.arg # <<>> /\ loadData(last.disk0).err = "nil") =>
     FeedbackTookEffect

(* ------------------------------------------------------------------ *)
(* Two collectors over one data directory                              *)
(* ------------------------------------------------------------------ *)

\* The collectors: two engines (two processes, or two cmd calls).
Instances == {1, 2}

\* Number of collectors that have written the document.
Persisted == Cardinality({i \in Instances : collectors[i].pc = "saved"})

\* NewDataCollector: a collector before Initialize.
NewDataCollector == [pc |-> "new", issueData |-> <<>>, loaded |-> <<>>, seen |-> 0]

\* The mapping a collector mutates after one read from the data directory.
Reloaded(c, d) == loadData(d).mem

\* The mapping a collector mutates: the one it holds in memory.
Held(c, d) == c.issueData

\* collectors[i].Initialize(): loadData into the collector's memory.
Initialize(i) ==
  /\ collectors[i].pc = "new"
  /\ collectors' = [collectors EXCEPT ![i] =
                      IF loadData(disk).err # "nil" THEN [@ EXCEPT !.pc = "failed"]
                      ELSE [pc |-> "loaded", issueData |-> loadData(disk).mem,
                            loaded |-> loadData(disk).mem, seen |-> Persisted]]
  /\ UNCHANGED <<varsA, varsR, disk, last, prev, steps>>

\* The state after the one mutation of collector i, with result res.
Mutated(i, op, arg, flag, res) ==
  /\ collectors[i].pc = "loaded"
  /\ collectors' = [collectors EXCEPT ![i].pc = IF res.disk # disk \/ res.err = "nil" THEN "saved" ELSE "returned",
                                      ![i].issueData = res.mem]
  /\ disk' = res.disk
  /\ prev' = last
  /\ last' = [op |-> op, who |-> i, arg |-> arg, flag |-> flag, err |-> res.err]
  /\ steps' = steps + 1
  /\ UNCHANGED <<varsA, varsR>>

\* collectors[i].RecordIssue(issue, repository), learning enabled.
PairRecordIssue(i, issue, repository) ==
  \E outcome \in SaveOutcomes :
    Mutated(i, "record", issue, FALSE,
            RecordIssue(TRUE, Held(collectors[i], disk), disk, issue, repository, outcome))

\* collectors[i].RecordFeedback(issueID, accepted), learning enabled.
PairRecordFeedback(i, issueID, accepted) ==
  LET m == Held(collectors[i], disk)
  IN \E order \in Orderings(DOMAIN m) :
      \E outcome \in Writes(FirstMatch(m, order, issueID) # <<>>) :
        Mutated(i, "feedback", issueID, accepted,
                RecordFeedback(TRUE, m, disk, order, issueID, accepted, outcome))

\* Two collectors made, none initialized, over a data directory earlier
\* runs wrote.
InitPair ==
  /\ AnalyzeIdle
  /\ RankIdle
  /\ \E list \in EarlierRuns :
        disk = IF list = <<>> THEN [kind |-> "absent", doc |-> <<>>]
               ELSE saveData(RecordAll(list), <<>>, "ok").disk
  /\ last = <<>>
  /\ prev = <<>>
  /\ steps = 0
  /\ collectors = [i \in Instances |-> NewDataCollector]

NextPair ==
  \/ \E i \in Instances : Initialize(i)
  \/ \E i \in Instances, issue \in StoreFindings, repository \in Repositories : PairRecordIssue(i, issue, repository)
  \/ \E i \in Instances, issueID \in FeedbackKeys, accepted \in BOOLEAN : PairRecordFeedback(i, issueID, accepted)

SpecPair == InitPair /\ [][NextPair]_vars

\* The documents the last mutation, made alone on the mapping m, can leave.
AloneOn(m) ==
  IF last.op = "record"
  THEN {MarshalIndent(RecordIssue(TRUE, m, disk, last.arg, repository, "ok").mem) : repository \in Repositories}
  ELSE {MarshalIndent(RecordFeedback(TRUE, m, disk, order, last.arg, last.flag, "ok").mem)
          : order \in Orderings(DOMAIN m)}

\* Both collectors have mutated and written, neither write failing.
BothPersisted ==
  /\ DOMAIN collectors = Instances
  /\ \A i \in Instances : collectors[i].pc = "saved"
  /\ last.err = "nil" /\ prev.err = "nil"

\* C23: after two collectors each loaded, mutated once and persisted, the
\* document is the encoding of the whole mapping of the collector that
\* persisted last; when both loaded before either persisted it is what
\* the last mutation alone makes of the document they loaded, so the
\* other collector's mutation is not in it.
C23_LastWriterWins ==
  BothPersisted =>
     /\ disk = [kind |-> "document", doc |-> MarshalIndent(collectors[last.who].issueData)]
     /\ (\A i \in Instances : collectors[i].seen = 0) =>
           /\ collectors[1].loaded = collectors[2].loaded
           /\ disk.doc \in AloneOn(collectors[last.who].loaded)

\* C23 witness: both collectors loaded the document with one record, both
\* recorded a finding, and the document has two records, not three.
C23_Witness ==
  /\ BothPersisted
  /\ \A i \in Instances : collectors[i].seen = 0 /\ TotalRecords(collectors[i].loaded) = 1
  /\ last.op = "record" /\ prev.op = "record"
  /\ last.arg # prev.arg
  /\ TotalRecords(disk.doc) = 2

\* Similarity as the claim gives it, in tenths.
ClaimedSimilarity(a, b) ==
  10 + (IF a.Severity = b.Severity THEN 5 ELSE 0) + (IF a.Confidence = b.Confidence THEN 3 ELSE 0)
     + (IF Contains(a.Message, b.Message) \/ Contains(b.Message, a.Message) THEN 7 ELSE 0)

\* list is the top 5, by similarity to issue, of the records of history
\* at the positions S, most similar first.
IsMostSimilar(list, issue, history, S) ==
  /\ Len(list) = (IF Cardinality(S) > 5 THEN 5 ELSE Cardinality(S))
  /\ \A j \in DOMAIN list : \E k \in S : history[k].Issue = list[j]
  /\ \A i, j \in DOMAIN list : i < j => ClaimedSimilarity(issue, list[i]) >= ClaimedSimilarity(issue, list[j])
  /\ \A k \in S : history[k].Issue \notin Members(list) =>
        \A j \in DOMAIN list : ClaimedSimilarity(issue, history[k].Issue) <= ClaimedSimilarity(issue, list[j])

\* The positions of history whose record lies at another place than issue.
Elsewhere(issue, history) ==
  {k \in DOMAIN history : ~(history[k].Issue.File = issue.File /\ history[k].Issue.Line = issue.Line)}

\* C24 (amended): with learning enabled, GetSimilarIssues(f) returns the
\* top 5, by similarity to f, of the records of f.Rule whose file or line
\* differs from f's, most similar first, and leaves the store as it was.
C24_SimilarAmongOtherLocations ==
  (LastWas("similar") /\ last.learn) =>
     /\ IsMostSimilar(last.out, last.arg, RecordsOf(issueData, last.arg.Rule),
                      Elsewhere(last.arg, RecordsOf(issueData, last.arg.Rule)))
     /\ issueData = last.mem0
     /\ disk = last.disk0

\* C24 as stated: the top 5 are taken among all records of f.Rule.
C24_SimilarAmongAllRecords ==
  (LastWas("similar") /\ last.learn) =>
     /\ IsMostSimilar(last.out, last.arg, RecordsOf(issueData, last.arg.Rule),
                      DOMAIN RecordsOf(issueData, last.arg.Rule))
     /\ issueData = last.mem0
     /\ disk = last.disk0

\* C24 witness: of seven records, one at the finding's own place, five
\* came back; the record at the finding's place is not among them and
\* the one left out besides it is less similar than all returned.
C24_Witness ==
  /\ LastWas("similar") /\ last.learn
  /\ last.arg = SimilarTo
  /\ Len(RecordsOf(issueData, "S1")) = 7
  /\ Len(last.out) = 5
  /\ SimilarTo \notin Members(last.out)
  /\ ClaimedSimilarity(SimilarTo, last.out[1]) > ClaimedSimilarity(SimilarTo, last.out[5])

(* ------------------------------------------------------------------ *)
(* Properties of the aggregate: rule identifiers and labels            *)
(* ------------------------------------------------------------------ *)

\* The detectors NewAnalyzer registers, family after family.
Registry == patterns \o antiPatterns \o bestPractices \o securityRules

\* Number of registered detectors with a rule identifier.
Registered(rule) == Cardinality({k \in DOMAIN Registry : Registry[k] = rule})

\* The severity and category labels of a finding.
Severities == {"critical", "high", "medium", "low"}
Categories == {"code-smell", "anti-pattern", "best-practice", "security", "documentation", "performance"}

\* The rule identifiers in the reports the scanner can read.
ReportedRules == UNION {{run.Issues[j].Rule : j \in DOMAIN run.Issues} : run \in GosecRuns}

\* C25 (amended): every finding of the aggregate has a non-empty rule
\* identifier, a severity and a category from the closed enumerations; the
\* rule identifier is that of exactly one registered detector or, for a
\* finding the scanner returned, the rule identifier of the scanner's
\* report entry.
C25_LabelsClosedRuleRegisteredOrReported ==
  pc = "done" =>
    \A k \in DOMAIN results.Issues :
       /\ results.Issues[k].Rule # ""
       /\ results.Issues[k].Severity \in Severities
       /\ results.Issues[k].Category \in Categories
       /\ \/ Registered(results.Issues[k].Rule) = 1
          \/ /\ results.Issues[k] \in Members(securityIssues)
             /\ results.Issues[k].Rule \in ReportedRules

\* C25 as stated: every finding of the aggregate, the scanner's included,
\* has the rule identifier of exactly one registered detector.
C25_EveryRuleIsRegistered ==
  pc = "done" =>
    \A k \in DOMAIN results.Issues :
       /\ results.Issues[k].Rule # ""
       /\ Registered(results.Issues[k].Rule) = 1
       /\ results.Issues[k].Severity \in Severities
       /\ results.Issues[k].Category \in Categories

\* C25 witness: the aggregate holds a detector's finding and a scanner
\* finding whose report entry had a severity label gosec does not define.
C25_Witness ==
  /\ pc = "done"
  /\ \E k \in DOMAIN results.Issues : Registered(results.Issues[k].Rule) = 1
  /\ \E k \in DOMAIN results.Issues :
        /\ results.Issues[k].Rule = "G999"
        /\ results.Issues[k].Severity = "low"

\* C26: Analyze terminates; the WaitGroup counter is at every moment the
\* number of started units that have not yet signalled completion (each
\* signals once, whether analyzeFile failed or not), and the join is
\* passed only when every unit has finished.
C26_AnalyzeTerminates ==
  /\ <>(pc = "done")
  /\ [](wg = Cardinality({i \in Units : upc[i] \notin {"idle", "done"}}))
  /\ [](pc # "loop" => \A i \in Units : upc[i] = "done")

\* C26 witness: Analyze returned for a file set with a file that failed
\* to parse and one that was analyzed.
C26_Witness ==
  /\ pc = "done"
  /\ wg = 0
  /\ FailedUnits # {}
  /\ OkUnits # {}
  /\ \A i \in Units : upc[i] = "done"

RECURSIVE PreOrder(_, _)
\* The nodes of the subtree at n, each before its children, children left
\* to right.
PreOrder(tree, n) == <<n>> \o Concat([k \in DOMAIN tree[n].kids |-> PreOrder(tree, tree[n].kids[k])])

\* The registered rules that fire on a node, in registry order, with the
\* node's line.
FiredAt(node) ==
  LET fired == SelectSeq(Registry, LAMBDA rule : rule \in node.fires)
  IN [k \in DOMAIN fired |-> <<node.line, fired[k]>>]

\* Line and rule of the findings expected of a file.
ExpectedOf(file) ==
  Concat([k \in DOMAIN PreOrder(file.tree, 1) |-> FiredAt(file.tree[PreOrder(file.tree, 1)[k]])])

\* The units whose analyzeFile call has returned a list.
Analyzed == {i \in Units : upc[i] \notin {"idle", "start"} /\ ~Failed(i)}

\* C27: the list analyzeFile returns holds, for the nodes of the tree in
\* pre-order, the findings of the detectors that fire on the node, in
\* family order and registry order within the family, one finding per
\* firing detector and node, each with the file's repository-relative
\* path.
C27_FindingsInTraversalAndRegistryOrder ==
  \A i \in Analyzed :
     /\ [k \in DOMAIN uissues[i] |-> <<uissues[i][k].Line, uissues[i][k].Rule>>] = ExpectedOf(files[i])
     /\ \A k \in DOMAIN uissues[i] : uissues[i][k].File = files[i].RelPath

\* C27 witness: two files were analyzed; in one, detectors of three
\* families fired on one node; in the other, a node's finding comes after
\* its parent's and before those of the parent's next sibling, on which
\* an anti-pattern and a security rule fired.
C27_Witness ==
  \E i, j \in Analyzed :
     /\ [k \in DOMAIN uissues[i] |-> uissues[i][k].Rule]
           = <<"empty-function", "undocumented-exported", "function-naming", "panic-usage">>
     /\ [k \in DOMAIN uissues[j] |-> uissues[j][k].Rule]
           = <<"too-many-params", "error-handling", "panic-usage", "init-misuse", "CS003">>
     /\ [k \in DOMAIN uissues[j] |-> uissues[j][k].Line] = <<5, 5, 6, 7, 7>>
     /\ uissues[j][5].File = <<"e">>

(* ------------------------------------------------------------------ *)
(* Properties of the commands                                          *)
(* ------------------------------------------------------------------ *)

\* The rule has records and fewer than 3 in 10 of them are accepted.
LowRated(m, rule) ==
  /\ rule \in DOMAIN m
  /\ Len(m[rule]) > 0
  /\ 10 * Cardinality({k \in DOMAIN m[rule] : m[rule][k].Accepted}) < 3 * Len(m[rule])

\* The last command was an analysis with -learn that could load the
\* history.
LearningRun ==
  /\ LastWas("analyze")
  /\ last.learn
  /\ loadData(last.disk0).err = "nil"

\* The records a list of reported findings leaves under a rule.
RecordsFor(list, rule) ==
  LET ofRule == SelectSeq(list, LAMBDA f : f.Rule = rule)
  IN [k \in DOMAIN ofRule |-> [Issue |-> MarshalIssue(ofRule[k]), Accepted |-> FALSE, Repository |-> <<"r">>]]

\* C28: a learning run reports no finding of a rule that the history
\* before the run rates below 0.3, and (no warning printed) leaves in the
\* store the records it found there followed by one unaccepted record per
\* reported finding; so in the second of two learning runs on a fresh
\* installation every rule of a finding of the first run has rate 0 and
\* none of its findings is reported.
C28_ReportedFindingsRecordedUnaccepted ==
  (LearningRun /\ last.out.stderr = <<>>) =>
     /\ \A k \in DOMAIN last.out.Issues : ~LowRated(last.mem0, last.out.Issues[k].Rule)
     /\ loadData(disk).err = "nil"
     /\ DOMAIN loadData(disk).mem = DOMAIN last.mem0 \cup {last.out.Issues[k].Rule : k \in DOMAIN last.out.Issues}
     /\ \A rule \in DOMAIN loadData(disk).mem :
           loadData(disk).mem[rule] = RecordsOf(last.mem0, rule) \o RecordsFor(last.out.Issues, rule)
     /\ (prev # <<>> /\ prev.op = "analyze" /\ prev.learn /\ prev.disk0.kind = "absent") =>
           \A k \in DOMAIN prev.arg :
              /\ prev.arg[k].Rule \in DOMAIN last.mem0
              /\ \A j \in DOMAIN last.mem0[prev.arg[k].Rule] : ~last.mem0[prev.arg[k].Rule][j].Accepted
              /\ \A j \in DOMAIN last.out.Issues : last.out.Issues[j].Rule # prev.arg[k].Rule

\* C28 witness: two learning runs on a fresh installation, both finding
\* the same two findings of two rules; the first reported and recorded
\* both, the second reported none and recorded none.
C28_Witness ==
  /\ LearningRun /\ last.out.stderr = <<>>
  /\ prev # <<>> /\ prev.op = "analyze" /\ prev.learn /\ prev.disk0.kind = "absent"
  /\ prev.arg = <<FindingR1, FindingR2>>
  /\ last.arg = <<FindingR2, FindingR1>>
  /\ TotalRecords(last.mem0) = 2
  /\ last.out.Issues = <<>>
  /\ disk = last.disk0

\* C29: after analyzeCode the counts are those of the list Analyze
\* returned, whatever ranking did to Results.Issues: TotalIssues is at
\* least the length of the list, and greater exactly when a finding was
\* filtered out.
C29_CountsAreOfTheUnrankedList ==
  LastWas("analyze") =>
     /\ last.out.TotalIssues = Len(last.arg)
     /\ last.out.CriticalIssues = Cardinality({k \in DOMAIN last.arg : last.arg[k].Severity = "critical"})
     /\ last.out.HighIssues = Cardinality({k \in DOMAIN last.arg : last.arg[k].Severity = "high"})
     /\ last.out.MediumIssues = Cardinality({k \in DOMAIN last.arg : last.arg[k].Severity = "medium"})
     /\ last.out.LowIssues = Cardinality({k \in DOMAIN last.arg : last.arg[k].Severity = "low"})
     /\ last.out.TotalIssues >= Len(last.out.Issues)
     /\ (last.out.TotalIssues > Len(last.out.Issues)) <=>
           (LearningRun /\ \E k \in DOMAIN last.arg : LowRated(last.mem0, last.arg[k].Rule))

\* C29 witness: of two findings, one high and one low, the learning run
\* reported one, and the printed counts are still 2, 1 and 1.
C29_Witness ==
  /\ LearningRun
  /\ Len(last.arg) = 2
  /\ Len(last.out.Issues) = 1
  /\ last.out.TotalIssues = 2
  /\ last.out.HighIssues = 1
  /\ last.out.LowIssues = 1

====
